---- MODULE Spec2Model ----
(***************************************************************************)
(* edubot-matrix: the settings store (storage.py), the command processor   *)
(* (bot_commands.py) and the RSS scheduler (rss.py) as one state machine.  *)
(*                                                                         *)
(* A table of the database is a bag of rows, so that a duplicated row is   *)
(* something a check can see; the PRIMARY KEY of each table is enforced    *)
(* where the code enforces it, in its INSERT OR IGNORE statements.         *)
(* A handler is an operator from the state it reads and its inputs to the  *)
(* state it leaves and the message it sends; an action applies one         *)
(* handler from one suspension point (await) to the next.                  *)
(***************************************************************************)
EXTENDS Integers, Sequences, FiniteSets, Bags, TLC

\* ------------------------------------------------------------------ bounds

\* Commands suspended on the membership lookup at the same time.
MaxInFlight == 2

\* The wall clock and the publish timestamps range over 0..MaxTime.
MaxTime == 3

\* Entries of one feed document.
MaxEntries == 4

\* ------------------------------------------------------- identifiers, inputs

Users == {"u1", "u2", "u3"}

\* g.config.admins: the configured super-admins.
config_admins == {"u3"}

Rooms == {"r1", "r2", "r3"}

Urls == {"f1", "f2"}

Times == 0 .. MaxTime

\* SQL NULL / Python None.
NULL == "NULL"

DefaultGreeting == "g0"

\* g.config.original_prompt
original_prompt == "prompt0"

\* ------------------------------------------------------------------ state

VARIABLES
    db,              \* the database: a record of tables, each a bag of rows
    config_greeting, \* g.config.greeting
    tasks,           \* bag of commands suspended in `await joined_members`
    invites,         \* bag of invite handlers suspended in `await self.client.join`
    last,            \* outcome of the handler that completed last
    clock,           \* time.time(), in seconds
    tz,              \* UTC offset of the host's local time, in seconds
    web,             \* what feedparser.parse(url) returns now, per url
    pc,              \* sync_rss_feeds: "sleep" or "fanout"
    updates,         \* sync_rss_feeds: the list `updates` of the running cycle
    ui,              \* sync_rss_feeds: index in `updates` of the update in hand
    fan,             \* sync_rss_feeds: rooms of the inner loop not yet sent to
    sent,            \* send_text_to_room calls since the last fetch: bag of <<url, entry, room>>
    log              \* every <<url, entry, room>> send_text_to_room was called for since the start

vars == <<db, config_greeting, tasks, invites, last, clock, tz, web, pc, updates, ui, fan, sent, log>>

feedVars == <<pc, updates, ui, fan, sent, log>>

envVars == <<clock, tz, web>>

\* ------------------------------------------------------------ bag helpers

Rows(table) == BagToSet(table)

Row(r) == SetToBag({r})

\* DELETE FROM table WHERE P: every copy of every row in `gone` is removed.
DeleteRows(table, gone) == [r \in (DOMAIN table) \ gone |-> table[r]]

\* A SELECT of one column keeps one value per stored row (copies included).
RECURSIVE BagSize(_, _)
BagSize(table, rows) ==
    IF rows = {} THEN 0
    ELSE LET r == CHOOSE x \in rows : TRUE
         IN  CopiesIn(r, table) + BagSize(table, rows \ {r})

\* ---------------------------------------------------------------- storage

\* storage.py _initial_setup: the five tables, empty; the greeting row.
EmptyDb ==
    [admin            |-> EmptyBag,
     room             |-> EmptyBag,
     room_admin       |-> EmptyBag,
     rss_feed         |-> EmptyBag,
     rss_subscription |-> EmptyBag,
     greeting         |-> DefaultGreeting]

\* A row of table room as INSERT INTO room(room_id) creates it.
NewRoomRow(room_id) ==
    [room_id |-> room_id, personality |-> NULL, interject |-> <<0, 1>>,
     hide_in_threads |-> FALSE]

HasRoomRow(d, room_id) == \E r \in Rows(d.room) : r.room_id = room_id

RoomRow(d, room_id) == CHOOSE r \in Rows(d.room) : r.room_id = room_id

\* _add_room_to_db with INSERT OR REPLACE: the row of the room is deleted, its
\* admins and subscriptions with it (ON DELETE CASCADE), and created anew.
_add_room_to_db_replace(d, room_id) ==
    [d EXCEPT !.room = DeleteRows(@, {r \in Rows(@) : r.room_id = room_id})
                           (+) Row(NewRoomRow(room_id)),
              !.room_admin = DeleteRows(@, {r \in Rows(@) : r.room_id = room_id}),
              !.rss_subscription = DeleteRows(@, {r \in Rows(@) : r.room_id = room_id})]

\* INSERT OR IGNORE INTO room(room_id)
_add_room_to_db(d, room_id) ==
    IF HasRoomRow(d, room_id) THEN d
    ELSE [d EXCEPT !.room = @ (+) Row(NewRoomRow(room_id))]


\* set_room_admin with plain INSERTs: a row is stored again when it exists.
set_room_admin_dup(d, room_id, admin_id) ==
    LET d1 == [d EXCEPT !.admin = @ (+) Row(admin_id)]
        d2 == _add_room_to_db(d1, room_id)
    IN  [d2 EXCEPT !.room_admin =
            @ (+) Row([admin_id |-> admin_id, room_id |-> room_id])]

\* set_room_admin that replaces the admins of the room by the new one.
set_room_admin_replace(d, room_id, admin_id) ==
    LET d1 == IF \E a \in Rows(d.admin) : a = admin_id THEN d
              ELSE [d EXCEPT !.admin = @ (+) Row(admin_id)]
        d2 == _add_room_to_db(d1, room_id)
    IN  [d2 EXCEPT !.room_admin =
            DeleteRows(@, {r \in Rows(@) : r.room_id = room_id})
                (+) Row([admin_id |-> admin_id, room_id |-> room_id])]

\* INSERT OR IGNORE INTO admin; _add_room_to_db; INSERT OR IGNORE INTO room_admin
set_room_admin(d, room_id, admin_id) ==
    LET d1 == IF \E a \in Rows(d.admin) : a = admin_id THEN d
              ELSE [d EXCEPT !.admin = @ (+) Row(admin_id)]
        d2 == _add_room_to_db(d1, room_id)
        row == [admin_id |-> admin_id, room_id |-> room_id]
    IN  IF \E r \in Rows(d2.room_admin) :
               r.admin_id = admin_id /\ r.room_id = room_id
        THEN d2
        ELSE [d2 EXCEPT !.room_admin = @ (+) Row(row)]

\* remove_room_admin whose DELETE selects by the admin alone.
remove_room_admin_everywhere(d, room_id, admin_id) ==
    [d EXCEPT !.room_admin = DeleteRows(@, {r \in Rows(@) : r.admin_id = admin_id})]

\* DELETE FROM room_admin WHERE room_id = ? AND admin_id = ?
remove_room_admin(d, room_id, admin_id) ==
    [d EXCEPT !.room_admin =
        DeleteRows(@, {r \in Rows(@) : r.room_id = room_id /\ r.admin_id = admin_id})]

\* SELECT (admin_id) FROM room_admin WHERE room_id = ?  -- as the set of ids
list_room_admins(d, room_id) ==
    {r.admin_id : r \in {x \in Rows(d.room_admin) : x.room_id = room_id}}

\* len(list_room_admins(room_id)): one element per row selected
len_room_admins(d, room_id) ==
    BagSize(d.room_admin, {x \in Rows(d.room_admin) : x.room_id = room_id})

check_if_admin(d, room_id, user_id) ==
    user_id \in list_room_admins(d, room_id) \/ user_id \in config_admins

\* _add_room_to_db; UPDATE room SET personality = ? WHERE room_id = ?
set_personality(d, room_id, personality) ==
    LET d1 == _add_room_to_db(d, room_id)
        upd(r) == IF r.room_id = room_id
                  THEN [r EXCEPT !.personality = personality] ELSE r
    IN  [d1 EXCEPT !.room = SetToBag({upd(r) : r \in Rows(d1.room)})]

\* SELECT personality FROM room WHERE room_id = ?; fetchone()[0].
\* Without a row fetchone() is None and the subscript raises TypeError.
get_personality(d, room_id) ==
    IF ~HasRoomRow(d, room_id) THEN [raised |-> "TypeError", value |-> ""]
    ELSE LET p == RoomRow(d, room_id).personality
         IN  [raised |-> "", value |-> IF p = NULL THEN "" ELSE p]

HasFeedRow(d, url) == \E f \in Rows(d.rss_feed) : f.url = url

\* add_rss_feed that re-creates the feed row with the epoch as its watermark
\* (INSERT OR REPLACE ... VALUES (?, 0)).
add_rss_feed_epoch(d, room_id, rss_url, unix_utc) ==
    LET d1 == _add_room_to_db(d, room_id)
        d2 == [d1 EXCEPT !.rss_feed =
                  DeleteRows(@, {f \in Rows(@) : f.url = rss_url})
                      (+) Row([url |-> rss_url, last_update |-> 0])]
        row == [url |-> rss_url, room_id |-> room_id]
    IN  IF BagIn(row, d2.rss_subscription) THEN d2
        ELSE [d2 EXCEPT !.rss_subscription = @ (+) Row(row)]

\* add_rss_feed with plain INSERTs: a row is stored whether or not the table
\* holds one with its key.
add_rss_feed_dup(d, room_id, rss_url, unix_utc) ==
    LET d1 == _add_room_to_db(d, room_id)
    IN  [d1 EXCEPT !.rss_feed = @ (+) Row([url |-> rss_url, last_update |-> unix_utc]),
                   !.rss_subscription = @ (+) Row([url |-> rss_url, room_id |-> room_id])]

\* _add_room_to_db; INSERT OR IGNORE INTO rss_feed(url, last_update) with
\* unix_utc(); INSERT OR IGNORE INTO rss_subscription(room_id, url)
add_rss_feed(d, room_id, rss_url, unix_utc) ==
    LET d1 == _add_room_to_db(d, room_id)
        d2 == IF HasFeedRow(d1, rss_url) THEN d1
              ELSE [d1 EXCEPT !.rss_feed =
                       @ (+) Row([url |-> rss_url, last_update |-> unix_utc])]
        row == [url |-> rss_url, room_id |-> room_id]
    IN  IF \E s \in Rows(d2.rss_subscription) :
               s.url = rss_url /\ s.room_id = room_id
        THEN d2
        ELSE [d2 EXCEPT !.rss_subscription = @ (+) Row(row)]

\* remove_rss_feed that deletes the feed with its last subscription: the feed
\* row goes when no room is left subscribed to it.
remove_rss_feed_orphan(d, room_id, rss_url) ==
    LET d1 == [d EXCEPT !.rss_subscription =
                  DeleteRows(@, {s \in Rows(@) : s.room_id = room_id /\ s.url = rss_url})]
    IN  IF \E s \in Rows(d1.rss_subscription) : s.url = rss_url THEN d1
        ELSE [d1 EXCEPT !.rss_feed = DeleteRows(@, {f \in Rows(@) : f.url = rss_url})]

\* DELETE FROM rss_subscription WHERE room_id = ? AND url = ?
remove_rss_feed(d, room_id, rss_url) ==
    [d EXCEPT !.rss_subscription =
        DeleteRows(@, {s \in Rows(@) : s.room_id = room_id /\ s.url = rss_url})]

\* SELECT url FROM rss_subscription WHERE room_id = ?
get_feeds_from_room(d, room_id) ==
    {s.url : s \in {x \in Rows(d.rss_subscription) : x.room_id = room_id}}

\* SELECT room_id FROM rss_subscription, without the WHERE clause.
get_rooms_from_feed_any(d, rss_url) ==
    {s.room_id : s \in Rows(d.rss_subscription)}

\* SELECT room_id FROM rss_subscription WHERE url = ?
get_rooms_from_feed(d, rss_url) ==
    {s.room_id : s \in {x \in Rows(d.rss_subscription) : x.url = rss_url}}

\* datetime.fromtimestamp(t): the naive local wall time of the instant t.
fromtimestamp(t, offset) == t + offset

\* naive_datetime.timestamp(): the instant of a naive local wall time.
timestamp(wall, offset) == wall - offset

\* list_rss_feeds without the join: every row of rss_feed is listed.
list_rss_feeds_all(d, offset) ==
    {[url |-> f.url, last_update |-> fromtimestamp(f.last_update, offset)] :
        f \in Rows(d.rss_feed)}

\* SELECT DISTINCT s.url, f.last_update FROM rss_subscription s JOIN rss_feed f
\* ON s.url = f.url; last_update becomes datetime.fromtimestamp(last_update).
list_rss_feeds(d, offset) ==
    {[url |-> f.url, last_update |-> fromtimestamp(f.last_update, offset)] :
        f \in {x \in Rows(d.rss_feed) :
                  \E s \in Rows(d.rss_subscription) : s.url = x.url}}

\* UPDATE rss_feed SET last_update = round(time.time()) WHERE url = ?
set_rss_last_update(d, rss_url, time) ==
    LET upd(f) == IF f.url = rss_url THEN [f EXCEPT !.last_update = time] ELSE f
    IN  [d EXCEPT !.rss_feed = SetToBag({upd(f) : f \in Rows(d.rss_feed)})]

\* The store methods the command processor calls that storage.py does not
\* define: the greeting, the interject odds and the thread flag.
set_greeting(d, text) == [d EXCEPT !.greeting = text]

get_greeting(d) == d.greeting

set_interject(d, room_id, percentage) ==
    LET d1 == _add_room_to_db(d, room_id)
        upd(r) == IF r.room_id = room_id
                  THEN [r EXCEPT !.interject = percentage] ELSE r
    IN  [d1 EXCEPT !.room = SetToBag({upd(r) : r \in Rows(d1.room)})]

get_interject(d, room_id) ==
    IF HasRoomRow(d, room_id) THEN RoomRow(d, room_id).interject ELSE <<0, 1>>

get_hide_in_threads(d, room_id) ==
    IF HasRoomRow(d, room_id) THEN RoomRow(d, room_id).hide_in_threads ELSE FALSE

toggle_hide_in_threads(d, room_id) ==
    LET d1 == _add_room_to_db(d, room_id)
        upd(r) == IF r.room_id = room_id
                  THEN [r EXCEPT !.hide_in_threads = ~@] ELSE r
    IN  [d1 EXCEPT !.room = SetToBag({upd(r) : r \in Rows(d1.room)})]

\* A call of a store method from outside the command processor: the method
\* runs and commits; `last` keeps the method and its arguments.
StoreSetRoomAdmin(room_id, admin_id) ==
    /\ db' = set_room_admin(db, room_id, admin_id)
    /\ last' = [verb |-> "set_room_admin", kind |-> room_id, body |-> admin_id]
    /\ UNCHANGED <<config_greeting, tasks, invites, clock, tz, web, pc, updates, ui, fan, sent, log>>

StoreRemoveRoomAdmin(room_id, admin_id) ==
    /\ db' = remove_room_admin(db, room_id, admin_id)
    /\ last' = [verb |-> "remove_room_admin", kind |-> room_id, body |-> admin_id]
    /\ UNCHANGED <<config_greeting, tasks, invites, clock, tz, web, pc, updates, ui, fan, sent, log>>

StoreSetPersonality(room_id, personality) ==
    /\ db' = set_personality(db, room_id, personality)
    /\ last' = [verb |-> "set_personality", kind |-> room_id, body |-> personality]
    /\ UNCHANGED <<config_greeting, tasks, invites, clock, tz, web, pc, updates, ui, fan, sent, log>>

StoreAddRssFeed(room_id, rss_url) ==
    /\ db' = add_rss_feed(db, room_id, rss_url, clock)
    /\ last' = [verb |-> "add_rss_feed", kind |-> room_id, body |-> rss_url]
    /\ UNCHANGED <<config_greeting, tasks, invites, clock, tz, web, pc, updates, ui, fan, sent, log>>

StoreRemoveRssFeed(room_id, rss_url) ==
    /\ db' = remove_rss_feed(db, room_id, rss_url)
    /\ last' = [verb |-> "remove_rss_feed", kind |-> room_id, body |-> rss_url]
    /\ UNCHANGED <<config_greeting, tasks, invites, clock, tz, web, pc, updates, ui, fan, sent, log>>

\* ------------------------------------------------------ command processor

\* " ".join(args)
RECURSIVE join(_)
join(args) ==
    IF Len(args) = 0 THEN ""
    ELSE IF Len(args) = 1 THEN args[1]
    ELSE args[1] \o " " \o join(Tail(args))

\* int(s) on the tokens the model sends: the value, or the exception raised.
\* A literal that is no integer raises ValueError.
int(s) ==
    CASE s = "0"     -> [raised |-> "", value |-> 0]
      [] s = "1"     -> [raised |-> "", value |-> 1]
      [] s = "2"     -> [raised |-> "", value |-> 2]
      [] s = "10000" -> [raised |-> "", value |-> 10000]
      [] s = "10001" -> [raised |-> "", value |-> 10001]
      [] s = "-1"    -> [raised |-> "", value |-> 0 - 1]
      [] OTHER       -> [raised |-> "ValueError", value |-> 0]

\* What a handler leaves: the database, g.config.greeting, and the message it
\* sent to the room (kind, and the variable part of its text), or the
\* exception that ended it.
Result(d, g, kind, body) ==
    [db |-> d, greeting |-> g, out |-> [kind |-> kind, body |-> body]]

Raise(d, g, exception) == Result(d, g, "raised", exception)

_bad_perms(d, g, sender) == Result(d, g, "bad_perms", sender)

_show_help(d, g) == Result(d, g, "help", "")

\* rss.py validate_rss_url: not feedparser.parse(url)["bozo"]
validate_rss_url(w, rss_url) == rss_url \in DOMAIN w /\ ~w[rss_url].bozo

\* str.strip() of a token of the command: the tokens are split at spaces, so
\* what is left to strip is other white space, as in "f1\n".
strip(s) ==
    CASE s = "f1\n" -> "f1"
      [] s = "f2\n" -> "f2"
      [] OTHER      -> s

_greeting(d, g, args) ==
    IF Len(args) > 0
    THEN Result(set_greeting(d, join(args)), join(args), "greeting_set", "")
    ELSE Result(d, g, "greeting_shown", get_greeting(d))

\* toggle_hide_in_threads whose two replies are exchanged.
cmd_toggle_hide_in_threads_swapped(d, g, room_id) ==
    LET d1 == toggle_hide_in_threads(d, room_id)
    IN  IF get_hide_in_threads(d1, room_id)
        THEN Result(d1, g, "threads_not_hiding", "")
        ELSE Result(d1, g, "threads_hiding", "")

\* Command.toggle_hide_in_threads: `hiding` is the flag the store holds after
\* the toggle.
cmd_toggle_hide_in_threads(d, g, room_id) ==
    LET d1 == toggle_hide_in_threads(d, room_id)
    IN  IF get_hide_in_threads(d1, room_id)
        THEN Result(d1, g, "threads_hiding", "")
        ELSE Result(d1, g, "threads_not_hiding", "")

_add_admin(d, g, room_id, args, members) ==
    IF Len(args) = 0 THEN _show_help(d, g)
    ELSE LET new_admin == args[1]
         IN  IF new_admin \notin members
             THEN Result(d, g, "not_in_room", new_admin)
             ELSE Result(set_room_admin(d, room_id, new_admin), g, "added", new_admin)


\* _remove_admin without the only-admin check.
_remove_admin_no_only(d, g, room_id, sender, args, members) ==
    IF Len(args) = 0 THEN _show_help(d, g)
    ELSE LET admin_id == args[1]
         IN  IF admin_id \notin list_room_admins(d, room_id)
             THEN Result(d, g, "not_admin", admin_id)
             ELSE IF admin_id \notin members
             THEN Result(d, g, "not_member", admin_id)
             ELSE IF admin_id = sender
             THEN Result(d, g, "self", "")
             ELSE Result(remove_room_admin(d, room_id, admin_id), g,
                         "removed", admin_id)

\* _remove_admin with the self check ahead of the membership check.
_remove_admin_self_first(d, g, room_id, sender, args, members) ==
    IF Len(args) = 0 THEN _show_help(d, g)
    ELSE LET admin_id == args[1]
         IN  IF admin_id \notin list_room_admins(d, room_id)
             THEN Result(d, g, "not_admin", admin_id)
             ELSE IF len_room_admins(d, room_id) = 1
             THEN Result(d, g, "only_admin", "")
             ELSE IF admin_id = sender
             THEN Result(d, g, "self", "")
             ELSE IF admin_id \notin members
             THEN Result(d, g, "not_member", admin_id)
             ELSE Result(remove_room_admin(d, room_id, admin_id), g,
                         "removed", admin_id)

\* _remove_admin without the self check: only the last admin is kept.
_remove_admin_no_self(d, g, room_id, sender, args, members) ==
    IF Len(args) = 0 THEN _show_help(d, g)
    ELSE LET admin_id == args[1]
         IN  IF admin_id \notin list_room_admins(d, room_id)
             THEN Result(d, g, "not_admin", admin_id)
             ELSE IF len_room_admins(d, room_id) = 1
             THEN Result(d, g, "only_admin", "")
             ELSE IF admin_id \notin members
             THEN Result(d, g, "not_member", admin_id)
             ELSE Result(remove_room_admin(d, room_id, admin_id), g,
                         "removed", admin_id)

_remove_admin(d, g, room_id, sender, args, members) ==
    IF Len(args) = 0 THEN _show_help(d, g)
    ELSE LET admin_id == args[1]
             room_admins == list_room_admins(d, room_id)
         IN  IF admin_id \notin room_admins
             THEN Result(d, g, "not_admin", admin_id)
             ELSE IF len_room_admins(d, room_id) = 1
             THEN Result(d, g, "only_admin", "")
             ELSE IF admin_id \notin members
             THEN Result(d, g, "not_member", admin_id)
             ELSE IF admin_id = sender
             THEN Result(d, g, "self", "")
             ELSE Result(remove_room_admin(d, room_id, admin_id), g,
                         "removed", admin_id)

_list_admins(d, g, room_id) ==
    Result(d, g, "admins", list_room_admins(d, room_id))

_list_rss_feeds(d, g, room_id) ==
    Result(d, g, "feeds", get_feeds_from_room(d, room_id))

\* _add_rss_feed without the validation of the URL.
_add_rss_feed_unchecked(d, g, room_id, args, w, unix_utc) ==
    IF Len(args) = 0 THEN _show_help(d, g)
    ELSE LET url == strip(args[1])
         IN  IF url \in get_feeds_from_room(d, room_id)
             THEN Result(d, g, "already_subscribed", url)
             ELSE Result(add_rss_feed(d, room_id, url, unix_utc), g,
                         "subscribed", url)

\* The subscribed check is made on the stripped token, the validation on the
\* token as it came (line 317), the subscription stored for the stripped one.
_add_rss_feed(d, g, room_id, args, w, unix_utc) ==
    IF Len(args) = 0 THEN _show_help(d, g)
    ELSE LET url == strip(args[1])
         IN  IF url \in get_feeds_from_room(d, room_id)
             THEN Result(d, g, "already_subscribed", url)
             ELSE IF ~validate_rss_url(w, args[1])
             THEN Result(d, g, "invalid_feed", url)
             ELSE Result(add_rss_feed(d, room_id, url, unix_utc), g,
                         "subscribed", url)

_remove_rss_feed(d, g, room_id, args) ==
    IF Len(args) = 0 THEN _show_help(d, g)
    ELSE LET url == strip(args[1])
         IN  IF url \notin get_feeds_from_room(d, room_id)
             THEN Result(d, g, "not_subscribed", url)
             ELSE Result(remove_rss_feed(d, room_id, url), g, "unsubscribed", url)

_personality(d, g, room_id, args) ==
    IF Len(args) = 0
    THEN LET got == get_personality(d, room_id)
         IN  IF got.raised # "" THEN Raise(d, g, got.raised)
             ELSE Result(d, g, "personality_shown",
                         IF got.value = "" THEN original_prompt ELSE got.value)
    ELSE Result(set_personality(d, room_id, join(args)), g,
                "personality_set", join(args))

\* A probability is the pair <<numerator, denominator>>. round(1 / percentage):
\* the division raises ZeroDivisionError for the probability 0; otherwise the
\* quotient den / num rounded to the nearest integer (in floating point
\* round(1 / (1 / odds)) is odds for every odds in 1..10000).
inverse_odds(percentage) ==
    IF percentage[1] = 0 THEN [raised |-> "ZeroDivisionError", value |-> 0]
    ELSE [raised |-> "",
          value |-> (2 * percentage[2] + percentage[1]) \div (2 * percentage[1])]

\* _interject whose report divides without the test for the probability 0.
_interject_unguarded(d, g, room_id, args) ==
    IF Len(args) = 0
    THEN LET odds == inverse_odds(get_interject(d, room_id))
         IN  IF odds.raised # "" THEN Raise(d, g, odds.raised)
             ELSE Result(d, g, "interject_status", odds.value)
    ELSE LET parsed == int(args[1])
             odds == parsed.value
         IN  IF parsed.raised \in {"TypeError", "AssertionError"}
             THEN Result(d, g, "odds_not_integer", "")
             ELSE IF parsed.raised # "" THEN Raise(d, g, parsed.raised)
             ELSE IF odds < 0 \/ odds > 10000
             THEN Result(d, g, "odds_out_of_range", "")
             ELSE IF odds # 0
             THEN Result(set_interject(d, room_id, <<1, odds>>), g,
                         "interject_set", odds)
             ELSE Result(set_interject(d, room_id, <<0, 1>>), g,
                         "interject_disabled", "")

\* _interject: without argument the report of the stored odds; with one, the
\* odds int(args[0]) stored as the probability 1/odds (0 for the odds 0). Only
\* TypeError and AssertionError of int() are handled (line 412).
_interject(d, g, room_id, args) ==
    IF Len(args) = 0
    THEN LET percentage == get_interject(d, room_id)
             odds == inverse_odds(percentage)
         IN  IF percentage[1] = 0
             THEN Result(d, g, "interject_status_disabled", "")
             ELSE IF odds.raised # "" THEN Raise(d, g, odds.raised)
             ELSE Result(d, g, "interject_status", odds.value)
    ELSE LET parsed == int(args[1])
             odds == parsed.value
         IN  IF parsed.raised \in {"TypeError", "AssertionError"}
             THEN Result(d, g, "odds_not_integer", "")
             ELSE IF parsed.raised # "" THEN Raise(d, g, parsed.raised)
             ELSE IF odds < 0 \/ odds > 10000
             THEN Result(d, g, "odds_out_of_range", "")
             ELSE IF odds # 0
             THEN Result(set_interject(d, room_id, <<1, odds>>), g,
                         "interject_set", odds)
             ELSE Result(set_interject(d, room_id, <<0, 1>>), g,
                         "interject_disabled", "")


\* dispatch whose `greeting` case has no super-admin guard.
dispatch_greeting_open(d, g, room_id, sender, command, args, members, w, unix_utc) ==
    CASE command = "help"        -> _show_help(d, g)
      [] command = "threads"     -> cmd_toggle_hide_in_threads(d, g, room_id)
      [] command = "personality" -> _personality(d, g, room_id, args)
      [] command = "subscribe"   -> _add_rss_feed(d, g, room_id, args, w, unix_utc)
      [] command = "unsubscribe" -> _remove_rss_feed(d, g, room_id, args)
      [] command = "feeds"       -> _list_rss_feeds(d, g, room_id)
      [] command = "add"         -> _add_admin(d, g, room_id, args, members)
      [] command = "remove"      -> _remove_admin(d, g, room_id, sender, args, members)
      [] command = "admins"      -> _list_admins(d, g, room_id)
      [] command = "interject"   -> _interject(d, g, room_id, args)
      [] command = "greeting"    -> _greeting(d, g, args)
      [] OTHER                   -> _show_help(d, g)

\* _unknown_command: no case of process() calls it.
_unknown_command(d, g, command) == Result(d, g, "unknown_command", command)

\* dispatch whose default case answers with _unknown_command.
dispatch_unknown(d, g, room_id, sender, command, args, members, w, unix_utc) ==
    CASE command = "help"        -> _show_help(d, g)
      [] command = "threads"     -> cmd_toggle_hide_in_threads(d, g, room_id)
      [] command = "personality" -> _personality(d, g, room_id, args)
      [] command = "subscribe"   -> _add_rss_feed(d, g, room_id, args, w, unix_utc)
      [] command = "unsubscribe" -> _remove_rss_feed(d, g, room_id, args)
      [] command = "feeds"       -> _list_rss_feeds(d, g, room_id)
      [] command = "add"         -> _add_admin(d, g, room_id, args, members)
      [] command = "remove"      -> _remove_admin(d, g, room_id, sender, args, members)
      [] command = "admins"      -> _list_admins(d, g, room_id)
      [] command = "interject"   -> _interject(d, g, room_id, args)
      [] command = "greeting"    -> IF sender \notin config_admins
                                    THEN _bad_perms(d, g, sender)
                                    ELSE _greeting(d, g, args)
      [] OTHER                   -> _unknown_command(d, g, command)

\* process() from `match self.command` on: self.members is known.
dispatch(d, g, room_id, sender, command, args, members, w, unix_utc) ==
    CASE command = "help"        -> _show_help(d, g)
      [] command = "threads"     -> cmd_toggle_hide_in_threads(d, g, room_id)
      [] command = "personality" -> _personality(d, g, room_id, args)
      [] command = "subscribe"   -> _add_rss_feed(d, g, room_id, args, w, unix_utc)
      [] command = "unsubscribe" -> _remove_rss_feed(d, g, room_id, args)
      [] command = "feeds"       -> _list_rss_feeds(d, g, room_id)
      [] command = "add"         -> _add_admin(d, g, room_id, args, members)
      [] command = "remove"      -> _remove_admin(d, g, room_id, sender, args, members)
      [] command = "admins"      -> _list_admins(d, g, room_id)
      [] command = "interject"   -> _interject(d, g, room_id, args)
      [] command = "greeting"    -> IF sender \notin config_admins
                                    THEN _bad_perms(d, g, sender)
                                    ELSE _greeting(d, g, args)
      [] OTHER                   -> _show_help(d, g)

\* What `await self.client.joined_members(room_id)` returns: a
\* JoinedMembersResponse with the members, or a JoinedMembersError.
JoinedMembers == [error : {FALSE}, members : SUBSET Users]
                     \cup {[error |-> TRUE, members |-> {}]}

\* process() after the membership lookup has returned `raw_members`.
\* A JoinedMembersError has no attribute `members`: line 105 raises.
process_resume(d, g, t, raw_members, w, unix_utc) ==
    IF raw_members.error THEN Raise(d, g, "AttributeError")
    ELSE dispatch(d, g, t.room, t.sender, Head(t.msg), Tail(t.msg),
                  raw_members.members, w, unix_utc)


\* process() without the `if not self.is_admin` return.
process_start_no_gate(d, g, room_id, sender, raw_message_lst) ==
    IF Len(raw_message_lst) = 0 THEN _show_help(d, g)
    ELSE Result(d, g, "await", "")

\* Command.__init__ and process() up to the membership lookup: the reply of a
\* command that ends there, or "await" for one that suspends in the lookup.
process_start(d, g, room_id, sender, raw_message_lst) ==
    LET is_admin == check_if_admin(d, room_id, sender)
    IN  IF Len(raw_message_lst) = 0 THEN _show_help(d, g)
        ELSE IF ~is_admin THEN _bad_perms(d, g, sender)
        ELSE Result(d, g, "await", "")

\* What is kept of the handler that completed last: the verb of its command
\* ("" for a command without tokens) and the message it sent.
NoOutcome == [verb |-> "", kind |-> "", body |-> ""]

Outcome(msg, out) ==
    [verb |-> IF Len(msg) = 0 THEN "" ELSE Head(msg),
     kind |-> out.kind, body |-> out.body]

\* callbacks.message for a message with the command prefix, up to the first
\* suspension: the command of `sender` in `room_id` with the tokens `msg`.
CommandStart(room_id, sender, msg) ==
    LET res == process_start(db, config_greeting, room_id, sender, msg)
    IN  /\ res.out.kind = "await" => BagCardinality(tasks) < MaxInFlight
        /\ tasks' = IF res.out.kind = "await"
                    THEN tasks (+) Row([room |-> room_id, sender |-> sender, msg |-> msg])
                    ELSE tasks
        /\ last' = IF res.out.kind = "await" THEN last
                   ELSE Outcome(msg, res.out)
        /\ db' = res.db
        /\ config_greeting' = res.greeting
        /\ UNCHANGED <<invites, envVars, feedVars>>

\* The membership lookup of the suspended command t returns and the command
\* runs to its end.
CommandResume(t, raw_members) ==
    LET res == process_resume(db, config_greeting, t, raw_members, web, clock)
    IN  /\ BagIn(t, tasks)
        /\ tasks' = tasks (-) Row(t)
        /\ last' = Outcome(t.msg, res.out)
        /\ db' = res.db
        /\ config_greeting' = res.greeting
        /\ UNCHANGED <<invites, envVars, feedVars>>

\* ----------------------------------------------------------------- invites

\* self.client.user_id: the user id of the bot.
BotUser == "bot"

\* range(3): the join calls Callbacks.invite makes at most.
JoinAttempts == 3

\* What `await self.client.join(room_id)` returns.
JoinResults == {"JoinResponse", "JoinError"}

\* The loop of invite without its `break`.
invite_loop_no_break(attempt, result) ==
    IF attempt + 1 < JoinAttempts THEN "join" ELSE "end"

\* Callbacks.invite, lines 121-132, when the join call number `attempt`
\* (from 0) has returned `result`: the loop calls join again after a
\* JoinError while attempts are left, and ends otherwise.
invite_loop(attempt, result) ==
    IF result = "JoinError" /\ attempt + 1 < JoinAttempts THEN "join" ELSE "end"

\* The end of invite that makes the inviter an admin and not the creator.
invite_admins_sender_only(d, room_id, sender, creator) ==
    set_room_admin(d, room_id, sender)

\* Callbacks.invite, lines 137-142, after the loop, whether or not a join
\* succeeded: event.sender is made an admin of the room, and room.creator too
\* when it is not empty and is not the sender.
invite_admins(d, room_id, sender, creator) ==
    LET d1 == set_room_admin(d, room_id, sender)
    IN  IF creator # "" /\ creator # sender
        THEN set_room_admin(d1, room_id, creator) ELSE d1

\* invite_event_filtered_callback on the handlers in flight: an event whose
\* state key is the bot's user id starts invite, which suspends in its first
\* join call; any other event starts nothing.
invite_event_filtered_callback(inv, room_id, sender, creator, state_key) ==
    IF state_key = BotUser
    THEN inv (+) Row([room |-> room_id, sender |-> sender, creator |-> creator,
                      attempt |-> 0, result |-> NULL])
    ELSE inv

\* An InviteMemberEvent of room_id sent by `sender` arrives.
InviteEvent(room_id, sender, creator, state_key) ==
    /\ state_key = BotUser => BagCardinality(invites) < MaxInFlight
    /\ invites' = invite_event_filtered_callback(invites, room_id, sender, creator,
                                                  state_key)
    /\ UNCHANGED <<db, config_greeting, tasks, last, envVars, feedVars>>

\* The join call the handler t awaits returns `result`: the handler calls join
\* again, or leaves the loop, schedules the greeting (_join_message, which
\* writes nothing) and stores the admins. `last` keeps the result of the last
\* join call and the inviter.
JoinReturns(t, result) ==
    /\ BagIn(t, invites)
    /\ IF invite_loop(t.attempt, result) = "join"
       THEN /\ invites' = (invites (-) Row(t))
                              (+) Row([t EXCEPT !.attempt = @ + 1, !.result = result])
            /\ UNCHANGED <<db, last>>
       ELSE /\ invites' = invites (-) Row(t)
            /\ db' = invite_admins(db, t.room, t.sender, t.creator)
            /\ last' = [verb |-> "invite", kind |-> result, body |-> t.sender]
    /\ UNCHANGED <<config_greeting, tasks, envVars, feedVars>>

\* ------------------------------------------------------------ environment

\* A feed document: whether feedparser flags it (bozo) and the publish
\* timestamps (timegm(entry.updated_parsed)) of its entries, in document order.
\* An entry is named by its url and its index in the document. `hangs`: the
\* server of the feed accepts the request and never answers it. `titled`: the
\* parsed document has a feed title (parsed.feed.title exists).
EmptyWeb ==
    [u \in Urls |-> [bozo |-> FALSE, entries |-> <<>>, hangs |-> FALSE, titled |-> TRUE]]

\* A second passes.
Tick ==
    /\ clock < MaxTime
    /\ clock' = clock + 1
    /\ UNCHANGED <<db, config_greeting, tasks, invites, last, tz, web, feedVars>>

\* The publisher of `url` adds an entry stamped ts to the document. The stamp
\* is the publisher's choice: earlier or later than those of the entries the
\* document lists, and earlier or later than the clock. No two entries of a
\* document share a stamp.
Publish(url, ts) ==
    /\ Len(web[url].entries) < MaxEntries
    /\ \A i \in 1 .. Len(web[url].entries) : web[url].entries[i] # ts
    /\ web' = [web EXCEPT ![url].entries = Append(@, ts)]
    /\ UNCHANGED <<db, config_greeting, tasks, invites, last, clock, tz, feedVars>>

\* The server of `url` stops answering requests.
Stall(url) ==
    /\ ~web[url].hangs
    /\ web' = [web EXCEPT ![url].hangs = TRUE]
    /\ UNCHANGED <<db, config_greeting, tasks, invites, last, clock, tz, feedVars>>

\* --------------------------------------------------------------- scheduler


\* NewItems comparing with >= : the entry at the watermark is kept.
NewItems_inclusive(entries, last_update, offset) ==
    SelectSeq([i \in 1 .. Len(entries) |-> [entry |-> i, ts |-> entries[i]]],
              LAMBDA e : e.ts >= timestamp(last_update, offset))

\* The entries of one parsed feed that get_rss_updates keeps (lines 63-67):
\* timegm(entry.updated_parsed) > last_update.timestamp(), in document order.
NewItems(entries, last_update, offset) ==
    SelectSeq([i \in 1 .. Len(entries) |-> [entry |-> i, ts |-> entries[i]]],
              LAMBDA e : e.ts > timestamp(last_update, offset))

\* get_rss_updates that ends its loop at the first feed that does not parse.
RECURSIVE get_rss_updates_break(_, _, _)
get_rss_updates_break(feed_infos, w, offset) ==
    IF Len(feed_infos) = 0 \/ w[Head(feed_infos).url].bozo THEN <<>>
    ELSE LET feed_info == Head(feed_infos)
             items == NewItems(w[feed_info.url].entries, feed_info.last_update, offset)
         IN  [k \in 1 .. Len(items) |-> [feed |-> feed_info, entry |-> items[k].entry]]
                 \o get_rss_updates_break(Tail(feed_infos), w, offset)

\* get_rss_updates over the list feed_infos: a feed that does not parse is
\* skipped; every kept entry carries its feed_info.
RECURSIVE get_rss_updates(_, _, _)
get_rss_updates(feed_infos, w, offset) ==
    IF Len(feed_infos) = 0 THEN <<>>
    ELSE LET feed_info == Head(feed_infos)
             parsed == w[feed_info.url]
             items == NewItems(parsed.entries, feed_info.last_update, offset)
             here == IF parsed.bozo THEN <<>>
                     ELSE [k \in 1 .. Len(items) |->
                              [feed |-> feed_info, entry |-> items[k].entry]]
         IN  here \o get_rss_updates(Tail(feed_infos), w, offset)

\* How the call get_rss_updates(feed_infos) ends. feedparser.parse(url) is
\* called without a timeout (line 55): on a server that never answers the call
\* does not return. A document that parses and has no title raises
\* AttributeError at line 61. The first feed of the list that does either
\* decides; a feed that does not parse is skipped before its title is read.
RECURSIVE fetch_outcome(_, _)
fetch_outcome(feed_infos, w) ==
    IF Len(feed_infos) = 0 THEN "returns"
    ELSE LET parsed == w[Head(feed_infos).url]
         IN  IF parsed.hangs THEN "blocks"
             ELSE IF ~parsed.bozo /\ ~parsed.titled THEN "raises"
             ELSE fetch_outcome(Tail(feed_infos), w)

\* The orders in which a SELECT may return the rows of a set.
RECURSIVE Orders(_)
Orders(rows) ==
    IF rows = {} THEN {<<>>}
    ELSE UNION {{<<r>> \o rest : rest \in Orders(rows \ {r})} : r \in rows}

\* sync_rss_feeds from the update at index i with the rooms `rooms` of its
\* inner loop left, up to the next `await send_text_to_room`: an update whose
\* inner loop is over is followed by the next one, whose first statement is
\* set_rss_last_update; after the last update the cycle is done.
RECURSIVE run_to_send(_, _, _, _, _)
run_to_send(d, upd, i, rooms, time) ==
    IF rooms # {} THEN [db |-> d, ui |-> i, fan |-> rooms, pc |-> "fanout"]
    ELSE IF i >= Len(upd) THEN [db |-> d, ui |-> i, fan |-> {}, pc |-> "done"]
    ELSE LET url == upd[i + 1].feed.url
             d1 == set_rss_last_update(d, url, time)
         IN  run_to_send(d1, upd, i + 1, get_rooms_from_feed(d1, url), time)

\* The sleep is over: get_rss_updates(store.list_rss_feeds()), then the loop
\* over the updates up to its first send.
PollFetch(feed_infos) ==
    /\ pc = "sleep"
    /\ feed_infos \in Orders(list_rss_feeds(db, tz))
    /\ fetch_outcome(feed_infos, web) = "returns"
    /\ LET upd == get_rss_updates(feed_infos, web, tz)
           res == run_to_send(db, upd, 0, {}, clock)
       IN  /\ updates' = upd
           /\ db' = res.db
           /\ ui' = res.ui
           /\ fan' = res.fan
           /\ pc' = res.pc
    /\ sent' = EmptyBag
    /\ UNCHANGED <<config_greeting, tasks, invites, last, envVars, log>>

\* The sleep is over and get_rss_updates does not return: feedparser.parse
\* waits for a server that never answers. The call is synchronous, so the
\* scheduler stays inside it.
PollFetchBlocks(feed_infos) ==
    /\ pc = "sleep"
    /\ feed_infos \in Orders(list_rss_feeds(db, tz))
    /\ fetch_outcome(feed_infos, web) = "blocks"
    /\ pc' = "parse"
    /\ UNCHANGED <<db, config_greeting, tasks, invites, last, envVars, updates, ui, fan, sent, log>>

\* The sleep is over and get_rss_updates raises: sync_rss_feeds has no handler,
\* so the exception ends the task main() created for it (main.py line 122).
PollFetchRaises(feed_infos) ==
    /\ pc = "sleep"
    /\ feed_infos \in Orders(list_rss_feeds(db, tz))
    /\ fetch_outcome(feed_infos, web) = "raises"
    /\ pc' = "dead"
    /\ UNCHANGED <<db, config_greeting, tasks, invites, last, envVars, updates, ui, fan, sent, log>>

\* `await send_text_to_room` of the update in hand to room_id returns (it
\* raises nothing: a SendRetryError is logged), and the loop goes on to its
\* next send.
PollSend(room_id) ==
    /\ pc = "fanout"
    /\ room_id \in fan
    /\ sent' = sent (+) Row(<<updates[ui].feed.url, updates[ui].entry, room_id>>)
    /\ log' = log \cup {<<updates[ui].feed.url, updates[ui].entry, room_id>>}
    /\ LET res == run_to_send(db, updates, ui, fan \ {room_id}, clock)
       IN  /\ db' = res.db
           /\ ui' = res.ui
           /\ fan' = res.fan
           /\ pc' = res.pc
    /\ UNCHANGED <<updates, config_greeting, tasks, invites, last, envVars>>

\* `await send_text_to_room` of the update in hand to room_id raises an
\* exception other than SendRetryError, the only one send_text_to_room handles
\* (utils.py lines 90-98): it leaves sync_rss_feeds and ends its task.
PollSendRaises(room_id) ==
    /\ pc = "fanout"
    /\ room_id \in fan
    /\ pc' = "dead"
    /\ UNCHANGED <<db, config_greeting, tasks, invites, last, envVars, updates, ui, fan, sent, log>>

\* "Done syncing RSS feeds": the loop goes back to its sleep; `updates` is
\* dead until the next cycle assigns it.
PollSleep ==
    /\ pc = "done"
    /\ pc' = "sleep"
    /\ updates' = <<>>
    /\ ui' = 0
    /\ fan' = {}
    /\ sent' = EmptyBag
    /\ UNCHANGED <<db, config_greeting, tasks, invites, last, envVars, log>>

\* ---------------------------------------------------------- specifications

\* The state after main() has built the store and the client, at second 0,
\* on a host `offset` seconds east of UTC, with the feed documents w.
Started(d, w, offset) ==
    /\ db = d
    /\ config_greeting = get_greeting(d)
    /\ tasks = EmptyBag
    /\ invites = EmptyBag
    /\ last = NoOutcome
    /\ clock = 0
    /\ tz = offset
    /\ web = w
    /\ pc = "sleep"
    /\ updates = <<>>
    /\ ui = 0
    /\ fan = {}
    /\ sent = EmptyBag
    /\ log = {}

\* --- Spec: the admin commands of room r1, sent by every user and interleaved
\* at the membership lookup. u3 is a super-admin; u1 and u2 are the users the
\* commands name and the room may have as members.

Targets == Users \ config_admins

AdminMsgs == {<<v, u>> : v \in {"add", "remove"}, u \in Targets}

Members == {m \in JoinedMembers : m.members \subseteq Targets}

StaticWeb == [EmptyWeb EXCEPT !["f2"].bozo = TRUE]

Init == Started(EmptyDb, StaticWeb, 0)

Next ==
    \/ \E sender \in Users : \E msg \in AdminMsgs :
           CommandStart("r1", sender, msg)
    \/ \E t \in Rows(tasks) : \E raw_members \in Members :
           CommandResume(t, raw_members)

Spec == Init /\ [][Next]_vars

\* --- SpecGate: the authorization gate of room r1, whose admins are those an
\* earlier run left. A sender who does not pass the gate sends every verb; a
\* sender who passes it sends the verbs that write no room setting.

Verbs == {"help", "threads", "personality", "subscribe", "unsubscribe", "feeds",
          "add", "remove", "admins", "interject", "greeting", "bogus"}

OpenMsgs == {<<>>, <<"help">>, <<"greeting">>, <<"greeting", "hi">>}

GateMsgs ==
    OpenMsgs \cup {<<v>> : v \in Verbs}
        \cup {<<"add", "u1">>, <<"remove", "u1">>, <<"personality", "hi">>,
              <<"subscribe", "f1">>, <<"interject", "2">>}

GateSends(sender) ==
    IF check_if_admin(db, "r1", sender) THEN OpenMsgs ELSE GateMsgs

RECURSIVE WithAdmins(_, _, _)
WithAdmins(d, room_id, admins) ==
    IF admins = {} THEN d
    ELSE LET a == CHOOSE x \in admins : TRUE
         IN  WithAdmins(set_room_admin(d, room_id, a), room_id, admins \ {a})

InitGate ==
    \E admins \in SUBSET Users : Started(WithAdmins(EmptyDb, "r1", admins), StaticWeb, 0)

NextGate ==
    \/ \E sender \in Users : \E msg \in GateSends(sender) :
           CommandStart("r1", sender, msg)
    \/ \E t \in Rows(tasks) : \E raw_members \in JoinedMembers :
           CommandResume(t, raw_members)

SpecGate == InitGate /\ [][NextGate]_vars

\* --- SpecFeed: the scheduler and the publishers. Rooms r1 and r2 subscribed
\* to f1, and r2 and r3 to f2, at second 0; f2 has stopped parsing since. The host is
\* one second east of UTC.

FeedDb ==
    add_rss_feed(add_rss_feed(add_rss_feed(add_rss_feed(EmptyDb, "r1", "f1", 0),
                                           "r2", "f1", 0),
                              "r2", "f2", 0),
                 "r3", "f2", 0)

FeedWeb == [EmptyWeb EXCEPT !["f2"].bozo = TRUE, !["f2"].entries = <<MaxTime>>]

InitFeed == Started(FeedDb, FeedWeb, 1)

NextFeed ==
    \/ Tick
    \/ \E ts \in Times : Publish("f1", ts)
    \/ \E feed_infos \in Orders(list_rss_feeds(db, tz)) : PollFetch(feed_infos)
    \/ \E room_id \in Rooms : PollSend(room_id)
    \/ PollSleep

SpecFeed == InitFeed /\ [][NextFeed]_vars

\* --- SpecFeedFair: SpecFeed in which the scheduler keeps running: its sleep
\* ends and each send it awaits returns. Nothing is required of the clock or
\* of the publishers.

FairFeed ==
    /\ WF_vars(\E feed_infos \in Orders(list_rss_feeds(db, tz)) : PollFetch(feed_infos))
    /\ WF_vars(\E room_id \in Rooms : PollSend(room_id))
    /\ WF_vars(PollSleep)

SpecFeedFair == SpecFeed /\ FairFeed

\* --- SpecStall: the scheduler of SpecFeedFair over documents that do not
\* change, while the servers of the feeds may stop answering.

StallWeb == [EmptyWeb EXCEPT !["f1"].entries = <<MaxTime, 1>>, !["f2"].entries = <<2>>]

InitStall == Started(FeedDb, StallWeb, 1)

NextStall ==
    \/ Tick
    \/ \E url \in Urls : Stall(url)
    \/ \E feed_infos \in Orders(list_rss_feeds(db, tz)) : PollFetch(feed_infos)
    \/ \E feed_infos \in Orders(list_rss_feeds(db, tz)) : PollFetchBlocks(feed_infos)
    \/ \E room_id \in Rooms : PollSend(room_id)
    \/ PollSleep

FairStall ==
    /\ WF_vars(\E feed_infos \in Orders(list_rss_feeds(db, tz)) : PollFetch(feed_infos))
    /\ WF_vars(\E feed_infos \in Orders(list_rss_feeds(db, tz)) : PollFetchBlocks(feed_infos))
    /\ WF_vars(\E room_id \in Rooms : PollSend(room_id))
    /\ WF_vars(PollSleep)

SpecStall == InitStall /\ [][NextStall]_vars /\ FairStall

\* --- SpecFault: the scheduler over documents that do not change, where f2
\* parses, does not parse, or parses without a title, and a send may raise.

FaultWebs ==
    {[StallWeb EXCEPT !["f2"].bozo = b, !["f2"].titled = t] : b, t \in BOOLEAN}

InitFault == \E w \in FaultWebs : Started(FeedDb, w, 1)

NextFault ==
    \/ Tick
    \/ \E feed_infos \in Orders(list_rss_feeds(db, tz)) : PollFetch(feed_infos)
    \/ \E feed_infos \in Orders(list_rss_feeds(db, tz)) : PollFetchRaises(feed_infos)
    \/ \E room_id \in Rooms : PollSend(room_id)
    \/ \E room_id \in Rooms : PollSendRaises(room_id)
    \/ PollSleep

FairFault ==
    /\ WF_vars(\E feed_infos \in Orders(list_rss_feeds(db, tz)) :
                   PollFetch(feed_infos) \/ PollFetchRaises(feed_infos))
    /\ WF_vars(\E room_id \in Rooms : PollSend(room_id) \/ PollSendRaises(room_id))
    /\ WF_vars(PollSleep)

SpecFault == InitFault /\ [][NextFault]_vars /\ FairFault

\* --- SpecSub: super-admin u3 subscribes and unsubscribes rooms r1 and r2
\* while the clock runs. f1 parses, f2 does not.

SubMsgs ==
    {<<"subscribe", "f1">>, <<"subscribe", "f1\n">>, <<"subscribe", "f2">>,
     <<"unsubscribe", "f1">>}

SubSends(room_id) ==
    IF room_id = "r1" THEN SubMsgs
    ELSE {<<"subscribe", "f1">>, <<"unsubscribe", "f1">>}

SubLookups == {m \in JoinedMembers : m.members = {}}

InitSub == Started(EmptyDb, StaticWeb, 0)

NextSub ==
    \/ \E room_id \in {"r1", "r2"} : \E msg \in SubSends(room_id) :
           CommandStart(room_id, "u3", msg)
    \/ \E t \in Rows(tasks) : \E raw_members \in SubLookups :
           CommandResume(t, raw_members)
    \/ Tick

SpecSub == InitSub /\ [][NextSub]_vars

\* --- SpecOdds: super-admin u3 sets and reads the interject odds of rooms r1
\* and r2.

OddsMsgs ==
    {<<"interject">>} \cup
        {<<"interject", a>> : a \in {"0", "2", "10000", "10001", "-1", "abc"}}

OddsSends(room_id) ==
    IF room_id = "r1" THEN OddsMsgs ELSE {<<"interject">>, <<"interject", "2">>}

InitOdds == Started(EmptyDb, StaticWeb, 0)

NextOdds ==
    \/ \E room_id \in {"r1", "r2"} : \E msg \in OddsSends(room_id) :
           CommandStart(room_id, "u3", msg)
    \/ \E t \in Rows(tasks) : \E raw_members \in SubLookups :
           CommandResume(t, raw_members)

SpecOdds == InitOdds /\ [][NextOdds]_vars

\* --- SpecRoom: super-admin u3 reads and writes the personality and flips
\* the thread flag of rooms r1 and r2.

RoomMsgs ==
    {<<"personality">>, <<"personality", "a">>, <<"personality", "a", "b">>,
     <<"threads">>}

InitRoom == Started(EmptyDb, StaticWeb, 0)

NextRoom ==
    \/ \E room_id \in {"r1", "r2"} : \E msg \in RoomMsgs :
           CommandStart(room_id, "u3", msg)
    \/ \E t \in Rows(tasks) : \E raw_members \in SubLookups :
           CommandResume(t, raw_members)

SpecRoom == InitRoom /\ [][NextRoom]_vars

\* --- SpecHelp: every user sends, in room r1, the empty command, a verb the
\* processor does not know and the verbs that need an argument without one;
\* `add u1` and `remove u1` let u1 pass the gate and fail it again.

HelpMsgs ==
    {<<>>, <<"bogus">>, <<"add">>, <<"remove">>, <<"subscribe">>, <<"unsubscribe">>,
     <<"add", "u1">>, <<"remove", "u1">>}

InitHelp == Started(EmptyDb, StaticWeb, 0)

NextHelp ==
    \/ \E sender \in Users : \E msg \in HelpMsgs : CommandStart("r1", sender, msg)
    \/ \E t \in Rows(tasks) : \E raw_members \in Members :
           CommandResume(t, raw_members)

SpecHelp == InitHelp /\ [][NextHelp]_vars

\* --- SpecStore: the store methods that write relations and room settings,
\* called in any order for rooms r1 and r2, users u1 and u2 and both feeds.

StoreRooms == {"r1", "r2"}

InitStore == Started(EmptyDb, StaticWeb, 0)

NextStore ==
    \/ \E room_id \in StoreRooms : \E admin_id \in Targets :
           StoreSetRoomAdmin(room_id, admin_id)
    \/ \E room_id \in StoreRooms : \E admin_id \in Targets :
           StoreRemoveRoomAdmin(room_id, admin_id)
    \/ \E room_id \in StoreRooms : StoreSetPersonality(room_id, "a")
    \/ \E room_id \in StoreRooms : \E rss_url \in Urls :
           StoreAddRssFeed(room_id, rss_url)
    \/ \E room_id \in StoreRooms : \E rss_url \in Urls :
           StoreRemoveRssFeed(room_id, rss_url)

SpecStore == InitStore /\ [][NextStore]_vars

\* --- SpecList: the scheduler, while rooms r1 and r2 are subscribed to and
\* unsubscribed from both feeds by calls of the store. Each feed parses and
\* lists one entry, stamped MaxTime.

ListWeb ==
    [EmptyWeb EXCEPT !["f1"].entries = <<MaxTime>>, !["f2"].entries = <<MaxTime>>]

InitList == Started(EmptyDb, ListWeb, 0)

NextList ==
    \/ \E room_id \in StoreRooms : \E rss_url \in Urls :
           StoreAddRssFeed(room_id, rss_url)
    \/ \E room_id \in StoreRooms : \E rss_url \in Urls :
           StoreRemoveRssFeed(room_id, rss_url)
    \/ \E feed_infos \in Orders(list_rss_feeds(db, tz)) : PollFetch(feed_infos)
    \/ \E room_id \in Rooms : PollSend(room_id)
    \/ PollSleep

SpecList == InitList /\ [][NextList]_vars

\* --- SpecInvite: invite events of room r1 sent by u1 and u2, for the bot and
\* for another user; the creator of the room is u1 or unknown. Each join call
\* a handler awaits returns.

Creators == {"", "u1"}

InviteRecords ==
    [room : {"r1"}, sender : Targets, creator : Creators,
     attempt : 0 .. JoinAttempts - 1, result : {NULL, "JoinError"}]

InitInvite == Started(EmptyDb, StaticWeb, 0)

NextInvite ==
    \/ \E sender \in Targets : \E creator \in Creators :
           \E state_key \in {BotUser, "u1"} :
               InviteEvent("r1", sender, creator, state_key)
    \/ \E t \in Rows(invites) : \E result \in JoinResults : JoinReturns(t, result)

FairInvite ==
    \A t \in InviteRecords : WF_vars(\E result \in JoinResults : JoinReturns(t, result))

SpecInvite == InitInvite /\ [][NextInvite]_vars /\ FairInvite

\* --- SpecEsc: room r1, of which u1 is an admin. Every user sends `add u2`
\* and `remove u2`; u2 invites the bot to r1.

EscMsgs == {<<"add", "u2">>, <<"remove", "u2">>}

InitEsc == Started(WithAdmins(EmptyDb, "r1", {"u1"}), StaticWeb, 0)

NextEsc ==
    \/ \E sender \in Users : \E msg \in EscMsgs : CommandStart("r1", sender, msg)
    \/ \E t \in Rows(tasks) : \E raw_members \in Members :
           CommandResume(t, raw_members)
    \/ \E creator \in Creators : InviteEvent("r1", "u2", creator, BotUser)
    \/ \E t \in Rows(invites) : \E result \in JoinResults : JoinReturns(t, result)

SpecEsc == InitEsc /\ [][NextEsc]_vars

\* --- SpecMark: the scheduler and the clock, while super-admin u3
\* unsubscribes room r1 from f1 and subscribes it again. r1 subscribed to f1
\* at second 0; the document of f1 lists an entry stamped MaxTime and an older
\* one and does not change.

MarkMsgs == {<<"subscribe", "f1">>, <<"unsubscribe", "f1">>}

MarkWeb == [StaticWeb EXCEPT !["f1"].entries = <<MaxTime, 1>>]

InitMark == Started(add_rss_feed(EmptyDb, "r1", "f1", 0), MarkWeb, 1)

NextMark ==
    \/ \E msg \in MarkMsgs : CommandStart("r1", "u3", msg)
    \/ \E t \in Rows(tasks) : \E raw_members \in SubLookups :
           CommandResume(t, raw_members)
    \/ Tick
    \/ \E feed_infos \in Orders(list_rss_feeds(db, tz)) : PollFetch(feed_infos)
    \/ \E room_id \in Rooms : PollSend(room_id)
    \/ PollSleep

SpecMark == InitMark /\ [][NextMark]_vars

\* --- SpecIso: super-admin u3 sends the commands that write room data in
\* room r1 and flips the thread flag of room r2. r2 starts with the admin u1, the feed f1, a personality,
\* interject odds and the thread flag set; r1 starts empty.

IsoMsgs ==
    {<<"add", "u1">>, <<"add", "u2">>, <<"remove", "u1">>,
     <<"subscribe", "f1">>, <<"unsubscribe", "f1">>, <<"personality", "a">>,
     <<"interject", "2">>, <<"threads">>}

IsoSends(room_id) ==
    IF room_id = "r1" THEN IsoMsgs
    ELSE {<<"threads">>}

IsoLookups ==
    {m \in JoinedMembers : m.error \/ m.members = {"u1", "u2"}}

IsoDb ==
    toggle_hide_in_threads(
        set_interject(
            set_personality(
                add_rss_feed(set_room_admin(EmptyDb, "r2", "u1"), "r2", "f1", 0),
                "r2", "b"),
            "r2", <<1, 3>>),
        "r2")

InitIso == Started(IsoDb, StaticWeb, 0)

NextIso ==
    \/ \E room_id \in {"r1", "r2"} : \E msg \in IsoSends(room_id) :
           CommandStart(room_id, "u3", msg)
    \/ \E t \in Rows(tasks) : \E raw_members \in IsoLookups :
           CommandResume(t, raw_members)

SpecIso == InitIso /\ [][NextIso]_vars

\* --- SpecLate: the scheduler, the clock and the publisher of f1, who stamps
\* each entry with the second it is published in, while super-admin u3
\* subscribes room r2 to f1. r1 subscribed to f1 at second 0; r2 was never
\* subscribed to it.

InitLate == Started(add_rss_feed(EmptyDb, "r1", "f1", 0), StaticWeb, 1)

NextLate ==
    \/ Tick
    \/ Publish("f1", clock)
    \/ CommandStart("r2", "u3", <<"subscribe", "f1">>)
    \/ \E t \in Rows(tasks) : \E raw_members \in SubLookups :
           CommandResume(t, raw_members)
    \/ \E feed_infos \in Orders(list_rss_feeds(db, tz)) : PollFetch(feed_infos)
    \/ \E room_id \in Rooms : PollSend(room_id)
    \/ PollSleep

\* The event loop runs the scheduler task whenever it can take a step.
FairLate ==
    /\ WF_vars(\E feed_infos \in Orders(list_rss_feeds(db, tz)) : PollFetch(feed_infos))
    /\ WF_vars(\E room_id \in Rooms : PollSend(room_id))
    /\ WF_vars(PollSleep)

SpecLate == InitLate /\ [][NextLate]_vars /\ FairLate

\* --- SpecFan: the scheduler, while super-admin u3 unsubscribes room r2 from
\* f1 and subscribes it again. r1 and r2 subscribed to f1 at second 0; the
\* document of f1 is that of SpecMark.

InitFan ==
    Started(add_rss_feed(add_rss_feed(EmptyDb, "r1", "f1", 0), "r2", "f1", 0),
            MarkWeb, 1)

NextFan ==
    \/ \E msg \in MarkMsgs : CommandStart("r2", "u3", msg)
    \/ \E t \in Rows(tasks) : \E raw_members \in SubLookups :
           CommandResume(t, raw_members)
    \/ \E feed_infos \in Orders(list_rss_feeds(db, tz)) : PollFetch(feed_infos)
    \/ \E room_id \in Rooms : PollSend(room_id)
    \/ PollSleep

SpecFan == InitFan /\ [][NextFan]_vars

\* ------------------------------------------------------------------ claims

RoomAdmins(d) == list_room_admins(d, "r1")

GreetingKinds == {"greeting_set", "greeting_shown"}

\* C1: a command of at least one token whose verb is not `help`, from a sender
\* who is neither an admin of the room nor a super-admin, is answered with the
\* 'no permission' message naming the sender, suspends nothing and leaves the
\* database and the greeting in memory as they were.
C1_GateDenies ==
    [][\A sender \in Users : \A msg \in GateMsgs :
          (/\ Len(msg) > 0
           /\ Head(msg) # "help"
           /\ sender \notin RoomAdmins(db) \cup config_admins
           /\ CommandStart("r1", sender, msg))
          => (/\ last'.kind = "bad_perms"
              /\ last'.body = sender
              /\ last'.verb = Head(msg)
              /\ db' = db
              /\ config_greeting' = config_greeting
              /\ tasks' = tasks)]_vars

\* C1 witness: the last command had a verb other than help, was answered with
\* 'no permission', and its sender is neither a room admin nor a super-admin.
C1_Witness ==
    /\ last.kind = "bad_perms"
    /\ last.verb \in Verbs \ {"help"}
    /\ last.body \notin RoomAdmins(db) \cup config_admins

\* C2 (as claimed): `help` is answered with the help text for every sender:
\* at once for a sender who does not pass the gate, after the membership
\* lookup for one who does; and it changes no state.
C2_HelpAlwaysAllowed ==
    [][/\ \A sender \in Users :
            CommandStart("r1", sender, <<"help">>)
                => (db' = db /\ (tasks' # tasks \/ last'.kind = "help"))
       /\ \A t \in Rows(tasks) : \A m \in JoinedMembers :
            (Head(t.msg) = "help" /\ ~m.error /\ CommandResume(t, m))
                => (db' = db /\ last'.kind = "help")]_vars

\* C3: the greeting (stored and in memory) changes, and a greeting message is
\* sent, only in a step that completes a `greeting` command of a super-admin,
\* never in the step that receives a command;
\* a `greeting` command of a room admin who is no super-admin, once its
\* membership lookup has returned the members, is answered with 'no permission'
\* and leaves the database and the greeting in memory as they were.
C3_GreetingSuperOnly ==
    [][/\ (db'.greeting # db.greeting \/ config_greeting' # config_greeting)
            => \E t \in Rows(tasks) : \E m \in JoinedMembers :
                   /\ CommandResume(t, m)
                   /\ Head(t.msg) = "greeting"
                   /\ t.sender \in config_admins
       /\ \A t \in Rows(tasks) : \A m \in JoinedMembers :
            CommandResume(t, m) =>
                /\ last'.kind \in GreetingKinds
                       => (Head(t.msg) = "greeting" /\ t.sender \in config_admins)
                /\ (/\ Head(t.msg) = "greeting"
                    /\ t.sender \in RoomAdmins(db) \ config_admins
                    /\ ~m.error)
                       => (/\ last'.kind = "bad_perms"
                           /\ last'.body = t.sender
                           /\ db' = db
                           /\ config_greeting' = config_greeting)
       /\ (tasks' = tasks /\ last'.kind \in GreetingKinds)
            => ~ \E sender \in Users : \E msg \in GateMsgs :
                     CommandStart("r1", sender, msg)]_vars

\* C3 witness: the last command was `greeting`, it was answered with
\* 'no permission', and its sender is a room admin but no super-admin.
C3_Witness ==
    /\ last.verb = "greeting"
    /\ last.kind = "bad_perms"
    /\ last.body \in RoomAdmins(db) \ config_admins

\* C4: once the room has an admin it has one after every step, whatever the
\* senders and the interleaving of the add and remove commands.
C4_NeverWithoutAdmin ==
    [][RoomAdmins(db) # {} => RoomAdmins(db') # {}]_vars

\* C4 witness: a remove command has just removed an admin and one is left.
C4_Witness ==
    /\ last.kind = "removed"
    /\ Cardinality(RoomAdmins(db)) = 1

\* The reply `remove target` is due under the order not-an-admin, only-admin,
\* not-a-member, target-equals-sender.
RemoveReplyDue(admins, target, sender, members) ==
    IF target \notin admins THEN "not_admin"
    ELSE IF Cardinality(admins) = 1 THEN "only_admin"
    ELSE IF target \notin members THEN "not_member"
    ELSE IF target = sender THEN "self"
    ELSE "removed"

\* C5: a `remove <user>` whose membership lookup returned the members is
\* answered with the reply of the first check that fails in the order
\* not-an-admin, only-admin, not-a-member, target-equals-sender; a rejection
\* leaves the database as it was; when all four pass the target, and nobody
\* else, leaves the admin set.
C5_RemoveCheckOrder ==
    [][\A t \in Rows(tasks) : \A m \in Members :
          (Head(t.msg) = "remove" /\ ~m.error /\ CommandResume(t, m)) =>
              LET due == RemoveReplyDue(RoomAdmins(db), t.msg[2], t.sender, m.members)
              IN  /\ last'.kind = due
                  /\ due # "removed" => db' = db
                  /\ due = "removed" =>
                        /\ RoomAdmins(db') = RoomAdmins(db) \ {t.msg[2]}
                        /\ t.msg[2] \in RoomAdmins(db)]_vars

\* C5 witness: a remove command was rejected at the third check: its target
\* is one of several admins, and still is.
C5_Witness ==
    /\ last.verb = "remove"
    /\ last.kind = "not_member"
    /\ last.body \in RoomAdmins(db)
    /\ Cardinality(RoomAdmins(db)) >= 2

\* C6: a `remove` whose target is its sender never changes the database,
\* whatever the number of admins; when the sender is one of several admins and
\* a member of the room, the reply is the self-removal denial.
C6_SelfRemovalDenied ==
    [][\A t \in Rows(tasks) : \A m \in Members :
          (/\ Head(t.msg) = "remove"
           /\ t.msg[2] = t.sender
           /\ CommandResume(t, m)) =>
              /\ db' = db
              /\ last'.kind # "removed"
              /\ (/\ ~m.error
                  /\ t.sender \in m.members
                  /\ t.sender \in RoomAdmins(db)
                  /\ Cardinality(RoomAdmins(db)) >= 2) => last'.kind = "self"]_vars

\* C6 witness: a self-removal was denied as such while another admin remains.
C6_Witness ==
    /\ last.verb = "remove"
    /\ last.kind = "self"
    /\ Cardinality(RoomAdmins(db)) >= 2

\* The first three steps of the scenario, for any two users U1 and U2 who are
\* no super-admins: with U1 the only admin, `remove U1` from U2 gets
\* 'no permission' and `remove U1` from U1 is denied, both without a change;
\* `add U2` from U1, U2 being a member, makes both admins.
ScenarioToBothAdmins(U1, U2) ==
    /\ (RoomAdmins(db) = {U1} /\ CommandStart("r1", U2, <<"remove", U1>>))
          => (last'.kind = "bad_perms" /\ db' = db /\ tasks' = tasks)
    /\ \A t \in Rows(tasks) : \A m \in Members :
          (RoomAdmins(db) = {U1} /\ ~m.error /\ CommandResume(t, m)) =>
              /\ (t.sender = U1 /\ t.msg = <<"remove", U1>>)
                    => (last'.kind \in {"only_admin", "self"} /\ db' = db)
              /\ (t.sender = U1 /\ t.msg = <<"add", U2>> /\ U2 \in m.members)
                    => (last'.kind = "added" /\ RoomAdmins(db') = {U1, U2})

\* C7 (as claimed): the scenario ends with `remove U1` from U1 succeeding once
\* U2 is an admin too, which leaves U2 as the admin set.
C7_ScenarioSelfRemovalSucceeds ==
    [][\A U1 \in Users \ config_admins : \A U2 \in Users \ (config_admins \cup {U1}) :
          /\ ScenarioToBothAdmins(U1, U2)
          /\ \A t \in Rows(tasks) : \A m \in Members :
                (/\ RoomAdmins(db) = {U1, U2}
                 /\ t.sender = U1 /\ t.msg = <<"remove", U1>>
                 /\ ~m.error /\ U1 \in m.members
                 /\ CommandResume(t, m))
                    => (last'.kind = "removed" /\ RoomAdmins(db') = {U2})]_vars

\* C7 (amended): the scenario ends with `remove U1` from U1 denied as a
\* self-removal although U2 is an admin too; U1 and U2 stay the admins.
C7_ScenarioSelfRemovalDenied ==
    [][\A U1 \in Users \ config_admins : \A U2 \in Users \ (config_admins \cup {U1}) :
          /\ ScenarioToBothAdmins(U1, U2)
          /\ \A t \in Rows(tasks) : \A m \in Members :
                (/\ RoomAdmins(db) = {U1, U2}
                 /\ t.sender = U1 /\ t.msg = <<"remove", U1>>
                 /\ ~m.error /\ U1 \in m.members
                 /\ CommandResume(t, m))
                    => (last'.kind = "self" /\ RoomAdmins(db') = {U1, U2})]_vars

\* C7 witness: the scenario has run to its end: u1 and u2 are the admins, no
\* command is suspended, and the last command was a self-removal denied as such.
C7_Witness ==
    /\ RoomAdmins(db) = {"u1", "u2"}
    /\ tasks = EmptyBag
    /\ last = [verb |-> "remove", kind |-> "self", body |-> ""]

\* C8: an `add <user>` whose membership lookup returned the members adds the
\* user exactly when the user is among them: then the reply confirms it, the
\* (user, room) row is stored exactly once and every other admin row is as it
\* was; otherwise the reply is the not-in-this-room rejection and the database
\* is as it was.
C8_AddRequiresMember ==
    [][\A t \in Rows(tasks) : \A m \in Members :
          (Head(t.msg) = "add" /\ ~m.error /\ CommandResume(t, m)) =>
              LET row == [admin_id |-> t.msg[2], room_id |-> t.room]
              IN  IF t.msg[2] \in m.members
                  THEN /\ last'.kind = "added"
                       /\ last'.body = t.msg[2]
                       /\ CopiesIn(row, db'.room_admin) = 1
                       /\ RoomAdmins(db') = RoomAdmins(db) \cup {t.msg[2]}
                       /\ \A r \in (Rows(db.room_admin) \cup Rows(db'.room_admin)) \ {row} :
                              CopiesIn(r, db'.room_admin) = CopiesIn(r, db.room_admin)
                  ELSE /\ last'.kind = "not_in_room"
                       /\ db' = db]_vars

\* C8 witness: an add command has just succeeded; its user is one of several
\* admins and the user's row is stored once.
C8_Witness ==
    /\ last.verb = "add"
    /\ last.kind = "added"
    /\ CopiesIn([admin_id |-> last.body, room_id |-> "r1"], db.room_admin) = 1
    /\ Cardinality(RoomAdmins(db)) >= 2

\* C9 (as claimed): when the membership lookup fails the command goes on with
\* no members: `add` is answered with the not-in-this-room rejection, `remove`
\* with the reply due for a target that is no member, and the database is as
\* it was.
C9_LookupFailureFailsClosed ==
    [][\A t \in Rows(tasks) : \A m \in Members :
          (m.error /\ CommandResume(t, m)) =>
              /\ db' = db
              /\ Head(t.msg) = "add" => last'.kind = "not_in_room"
              /\ Head(t.msg) = "remove" =>
                    last'.kind = RemoveReplyDue(RoomAdmins(db), t.msg[2], t.sender, {})]_vars

\* The watermark the database stores for `url`.
Watermark(d, url) ==
    (CHOOSE f \in Rows(d.rss_feed) : f.url = url).last_update

\* The entries, as <<url, index in the document>>, of the subscribed feeds
\* that parse, stamped strictly later than the stored watermark of their feed.
NewerThanWatermark(d, w) ==
    {x \in Urls \X (1 .. MaxEntries) :
        /\ \E s \in Rows(d.rss_subscription) : s.url = x[1]
        /\ ~w[x[1]].bozo
        /\ x[2] <= Len(w[x[1]].entries)
        /\ w[x[1]].entries[x[2]] > Watermark(d, x[1])}

\* The entries, as <<url, index>>, a list of updates holds.
EntriesOf(upd) == {<<upd[k].feed.url, upd[k].entry>> : k \in 1 .. Len(upd)}

\* C10: a poll cycle delivers exactly the entries strictly newer than the
\* stored watermark. The fetch that opens the cycle selects, each once, the
\* entries of the subscribed, parseable feeds whose stamp is greater than the
\* watermark stored for their feed, and no entry stamped at or before it; when
\* the cycle is done every selected entry has been sent exactly once to every
\* room subscribed to its feed and nothing else has been sent.
C10_DeliversNewerThanWatermark ==
    /\ [][\A feed_infos \in Orders(list_rss_feeds(db, tz)) :
             PollFetch(feed_infos)
             => /\ EntriesOf(updates') = NewerThanWatermark(db, web)
                /\ Len(updates') = Cardinality(NewerThanWatermark(db, web))]_vars
    /\ [](pc = "done"
          => \A x \in Urls \X (1 .. MaxEntries) : \A room_id \in Rooms :
                CopiesIn(<<x[1], x[2], room_id>>, sent)
                    = IF x \in EntriesOf(updates)
                         /\ room_id \in get_rooms_from_feed(db, x[1])
                      THEN 1 ELSE 0)

\* C10 witness: a cycle is done for feed f1, whose watermark is T and whose
\* document lists entries stamped T-1, T, T+1 and T+2: the entries stamped
\* T+1 and T+2, and only they, were sent to r1 and to r2.
C10_Witness ==
    /\ pc = "done"
    /\ Len(web["f1"].entries) = 4
    /\ \E T \in Times :
          /\ Watermark(db, "f1") = T
          /\ {web["f1"].entries[i] : i \in 1 .. 4} = {T - 1, T, T + 1, T + 2}
          /\ BagToSet(sent) =
                {<<"f1", i, room_id>> : i \in {j \in 1 .. 4 : web["f1"].entries[j] > T},
                                        room_id \in {"r1", "r2"}}

\* The publish stamp of the entry x = <<url, index in the document>>.
Stamp(w, x) == w[x[1]].entries[x[2]]

\* The entries of `url` the list of updates holds.
EntriesOfFeed(upd, url) == {x \in EntriesOf(upd) : x[1] = url}

\* C11 (as claimed): when a cycle that found new entries in a feed is done,
\* the watermark stored for the feed is the publish stamp of the latest entry
\* the cycle delivered for it.
C11_WatermarkIsLatestStamp ==
    pc = "done" =>
        \A url \in Urls :
            EntriesOfFeed(updates, url) # {} =>
                /\ \E x \in EntriesOfFeed(updates, url) :
                       Watermark(db, url) = Stamp(web, x)
                /\ \A x \in EntriesOfFeed(updates, url) :
                       Stamp(web, x) <= Watermark(db, url)

\* C12 (as claimed): over consecutive cycles an entry is sent to a room at
\* most once, whatever its publish stamp: the scheduler never calls
\* send_text_to_room for an entry and a room it has called it for before.
C12_NoDuplicateDelivery ==
    [][\A room_id \in Rooms :
          PollSend(room_id)
              => <<updates[ui].feed.url, updates[ui].entry, room_id>> \notin log]_vars

\* C13 (as claimed): no delivery is lost. Rooms r1 and r2 subscribed to f1
\* when its watermark was 0 and stay subscribed; every entry the document of
\* f1 lists with a stamp later than 0 is eventually sent to r1 and to r2.
C13_NoLostDelivery ==
    \A i \in 1 .. MaxEntries : \A room_id \in get_rooms_from_feed(FeedDb, "f1") :
        (i <= Len(web["f1"].entries) /\ Stamp(web, <<"f1", i>>) > 0)
            ~> (<<"f1", i, room_id>> \in log)

\* The rooms for which the database holds a subscription row to `url`.
Subscribers(d, url) ==
    {r \in Rooms : BagIn([url |-> url, room_id |-> r], d.rss_subscription)}

\* The send_text_to_room calls of the cycle for the entries of `url`.
SentOfFeed(url) == {x \in BagToSet(sent) : x[1] = url}

\* C14: in a cycle during which no subscription changes, every send goes to a
\* room subscribed to the feed of the entry in hand that has not been sent
\* this entry in the cycle; and when the cycle is done each new entry of a
\* feed has produced one notification for each room subscribed to the feed, so
\* that the notifications for the feed number (new entries) x (subscribed
\* rooms), none of them for a room that is not subscribed to it.
C14_FanOut ==
    /\ [][\A room_id \in Rooms :
             PollSend(room_id)
                 => /\ room_id \in Subscribers(db, updates[ui].feed.url)
                    /\ ~BagIn(<<updates[ui].feed.url, updates[ui].entry, room_id>>, sent)]_vars
    /\ [](pc = "done" =>
            \A url \in Urls :
                /\ \A x \in EntriesOfFeed(updates, url) : \A room_id \in Rooms :
                       CopiesIn(<<url, x[2], room_id>>, sent)
                           = IF room_id \in Subscribers(db, url) THEN 1 ELSE 0
                /\ BagSize(sent, SentOfFeed(url))
                       = Cardinality(EntriesOfFeed(updates, url))
                            * Cardinality(Subscribers(db, url)))

\* C14 witness: a cycle is done that found two new entries in f1: r1 and r2,
\* the rooms subscribed to f1, got one notification for each and r3, which is
\* subscribed to f2 only, got none.
C14_Witness ==
    /\ pc = "done"
    /\ Cardinality(EntriesOfFeed(updates, "f1")) = 2
    /\ BagCardinality(sent) = 4
    /\ \A x \in BagToSet(sent) : x[3] \in {"r1", "r2"}
    /\ Subscribers(db, "f1") = {"r1", "r2"}
    /\ "r3" \in Subscribers(db, "f2")

\* The number of rows the table rss_feed holds for `url`.
FeedRows(d, url) == BagSize(d.rss_feed, {f \in Rows(d.rss_feed) : f.url = url})

\* The number of times the feed list of the room holds `url`.
TimesListed(d, room_id, url) ==
    CopiesIn([url |-> url, room_id |-> room_id], d.rss_subscription)

\* C15: a `subscribe` of a URL the room is subscribed to, once its membership
\* lookup has returned, is answered with the 'already subscribed' denial and
\* leaves the database as it was; and after any number of subscribe commands
\* the feed list of a room holds a URL at most once, and exactly one feed row
\* exists for a URL that a room has in its list.
C15_SubscribeNotDuplicating ==
    /\ [][\A t \in Rows(tasks) : \A m \in SubLookups :
             (/\ Head(t.msg) = "subscribe"
              /\ TimesListed(db, t.room, strip(t.msg[2])) > 0
              /\ ~m.error
              /\ CommandResume(t, m))
                 => (last'.kind = "already_subscribed" /\ db' = db)]_vars
    /\ [](\A room_id \in Rooms : \A url \in Urls :
             /\ TimesListed(db, room_id, url) <= 1
             /\ FeedRows(db, url) <= 1
             /\ TimesListed(db, room_id, url) = 1 => FeedRows(db, url) = 1)

\* C15 witness: a second subscribe of f1 was just denied in a room that has
\* f1 in its list, while the other room is subscribed to f1 too.
C15_Witness ==
    /\ last.verb = "subscribe"
    /\ last.kind = "already_subscribed"
    /\ TimesListed(db, "r1", "f1") = 1
    /\ TimesListed(db, "r2", "f1") = 1
    /\ FeedRows(db, "f1") = 1

\* C16: a `subscribe` whose URL, as the command gave it, does not validate as
\* a parseable feed (and that the room is not subscribed to) is answered with
\* the 'not a valid RSS feed' message and leaves every table as it was; and a
\* subscription row or a feed row appears only in the step that completes a
\* `subscribe` whose URL validates in that step.
C16_SubscribeValidates ==
    [][/\ \A t \in Rows(tasks) : \A m \in SubLookups :
            (/\ Head(t.msg) = "subscribe"
             /\ TimesListed(db, t.room, strip(t.msg[2])) = 0
             /\ ~validate_rss_url(web, t.msg[2])
             /\ ~m.error
             /\ CommandResume(t, m))
                => (last'.kind = "invalid_feed" /\ db' = db)
       /\ (\E r \in Rows(db'.rss_subscription) \cup Rows(db'.rss_feed) :
               CopiesIn(r, db'.rss_subscription (+) db'.rss_feed)
                   > CopiesIn(r, db.rss_subscription (+) db.rss_feed))
            => \E t \in Rows(tasks) : \E m \in SubLookups :
                   /\ CommandResume(t, m)
                   /\ Head(t.msg) = "subscribe"
                   /\ validate_rss_url(web, t.msg[2])]_vars

\* C16 witness: a subscribe was just answered with 'not a valid RSS feed' and
\* the database holds no row at all.
C16_Witness ==
    /\ last.verb = "subscribe"
    /\ last.kind = "invalid_feed"
    /\ db = EmptyDb

\* The feed documents as they would be if every fetch and parse succeeded.
Healed(w) == [u \in DOMAIN w |-> [w[u] EXCEPT !.bozo = FALSE]]

\* The updates of `url` in a list of updates, in the order of the list.
UpdatesOfFeed(upd, url) == SelectSeq(upd, LAMBDA u : u.feed.url = url)

\* The watermark of `url` that the fetch of the running cycle read.
FetchedWatermark(upd, url, offset) ==
    timestamp(UpdatesOfFeed(upd, url)[1].feed.last_update, offset)

\* C17: a feed whose fetch or parse fails is skipped: no step changes its
\* watermark or its subscriptions or sends anything for it. The fetch that
\* opens a cycle selects for every other feed the entries, in the order, it
\* would select if the failing feed had parsed; and when the cycle is done
\* each of them has been sent to every room subscribed to its feed, whose
\* watermark was written in the cycle.
C17_FeedIsolation ==
    /\ [][\A url \in Urls :
             web[url].bozo
                 => /\ Watermark(db', url) = Watermark(db, url)
                    /\ Subscribers(db', url) = Subscribers(db, url)
                    /\ \A x \in log' : x[1] = url => x \in log]_vars
    /\ [][\A feed_infos \in Orders(list_rss_feeds(db, tz)) :
             PollFetch(feed_infos)
                 => \A url \in Urls :
                        ~web[url].bozo
                            => UpdatesOfFeed(updates', url)
                                   = UpdatesOfFeed(get_rss_updates(feed_infos, Healed(web), tz), url)]_vars
    /\ [](pc = "done" =>
            \A url \in Urls :
                EntriesOfFeed(updates, url) # {}
                    => /\ \A x \in EntriesOfFeed(updates, url) :
                              \A room_id \in Subscribers(db, url) :
                                  BagIn(<<url, x[2], room_id>>, sent)
                       /\ FetchedWatermark(updates, url, tz) <= Watermark(db, url)
                       /\ Watermark(db, url) <= clock)

\* C17 witness: a cycle is done in which f2, which lists an entry newer than
\* its watermark, did not parse: its watermark is the one it started with and
\* nothing was ever sent for it, while the new entries of f1 were delivered
\* and the watermark of f1 has moved.
C17_Witness ==
    /\ pc = "done"
    /\ web["f2"].bozo
    /\ Stamp(web, <<"f2", 1>>) > Watermark(db, "f2")
    /\ Watermark(db, "f2") = Watermark(FeedDb, "f2")
    /\ \A x \in log : x[1] # "f2"
    /\ EntriesOfFeed(updates, "f1") # {}
    /\ Watermark(db, "f1") > Watermark(FeedDb, "f1")

\* C18 (as claimed): within a cycle the new entries of a feed are processed,
\* and their notifications sent, oldest first: in the list of updates an entry
\* of a feed never comes after an entry of the same feed with a later stamp,
\* whatever the order of the entries in the document.
C18_OldestFirst ==
    \A k \in 1 .. Len(updates) : \A l \in k + 1 .. Len(updates) :
        updates[k].feed.url = updates[l].feed.url
            => Stamp(web, <<updates[k].feed.url, updates[k].entry>>)
                   <= Stamp(web, <<updates[l].feed.url, updates[l].entry>>)

\* C19: the watermark stored for a feed never decreases: a step of the
\* scheduler, of a command (an unsubscribe, a subscribe of a URL that has a
\* feed row) or of the environment leaves the feed row in place with a
\* watermark greater than or equal to the one it had. The host's clock is
\* taken not to step back.
C19_WatermarkMonotone ==
    [][\A url \in Urls :
          HasFeedRow(db, url)
              => /\ HasFeedRow(db', url)
                 /\ Watermark(db', url) >= Watermark(db, url)]_vars

\* C19 witness: r1 was just subscribed again to f1, whose feed row kept the
\* watermark the scheduler wrote in an earlier second.
C19_Witness ==
    /\ last.verb = "subscribe"
    /\ last.kind = "subscribed"
    /\ log # {}
    /\ Watermark(db, "f1") > 0
    /\ Watermark(db, "f1") < clock

\* C20 (as claimed): the scheduler can be cancelled, or the process stopped,
\* wherever the cycle is suspended in a send, and what it leaves is atomic
\* per feed: for each feed with new entries in the cycle either the watermark
\* is the one the fetch read and nothing was sent for the feed, or every new
\* entry of the feed was sent to every room subscribed to it.
C20_AtomicPerFeed ==
    pc = "fanout" =>
        \A url \in Urls :
            EntriesOfFeed(updates, url) # {} =>
                \/ /\ Watermark(db, url) = FetchedWatermark(updates, url, tz)
                   /\ SentOfFeed(url) = {}
                \/ \A x \in EntriesOfFeed(updates, url) :
                       \A room_id \in Subscribers(db, url) :
                           BagIn(<<url, x[2], room_id>>, sent)

\* C21: every poll cycle finishes, also when the server of one feed never
\* answers: a cycle that has begun comes back to the scheduler's sleep.
C21_CycleFinishes == (pc # "sleep") ~> (pc = "sleep")

\* C22: no failure of a feed or of a delivery stops the scheduler: whatever
\* happened in a cycle, the scheduler comes back to its sleep, from which the
\* next cycle starts.
C22_SchedulerSurvives == []<>(pc = "sleep")

\* The command t, suspended in its membership lookup, completes in this step
\* and its lookup did not fail (the failed lookup is the case of C9).
Completes(t) ==
    /\ tasks' = tasks (-) Row(t)
    /\ ~(last'.kind = "raised" /\ last'.body = "AttributeError")

\* C23: the stored odds of a room are the probability 0 or 1/N with N in
\* 1..10000; `interject 0` stores 0 and `interject N` stores 1/N; `interject`
\* without argument changes nothing and reports 'disabled' for the stored 0
\* and N for the stored 1/N, and no command ends in a division by zero.
C23_InterjectRoundTrip ==
    [][\A t \in Rows(tasks) :
           (Completes(t) /\ Head(t.msg) = "interject") =>
               LET stored == get_interject(db, t.room)
                   after == get_interject(db', t.room)
               IN  /\ stored[1] \in {0, 1} /\ stored[2] \in 1 .. 10000
                   /\ stored[1] = 0 => stored[2] = 1
                   /\ Len(t.msg) = 1 =>
                          /\ db' = db
                          /\ stored[1] = 0 => last'.kind = "interject_status_disabled"
                          /\ stored[1] = 1 =>
                                 last'.kind = "interject_status" /\ last'.body = stored[2]
                   /\ (Len(t.msg) > 1 /\ int(t.msg[2]).raised = ""
                          /\ int(t.msg[2]).value \in 0 .. 10000) =>
                          LET N == int(t.msg[2]).value
                          IN  IF N = 0
                              THEN after = <<0, 1>> /\ last'.kind = "interject_disabled"
                              ELSE /\ after = <<1, N>>
                                   /\ last'.kind = "interject_set" /\ last'.body = N]_vars

\* Room r1 has the odds 10000 stored and `interject` has just reported them;
\* room r2 has interjecting disabled.
C23_Witness ==
    /\ get_interject(db, "r1") = <<1, 10000>>
    /\ get_interject(db, "r2") = <<0, 1>>
    /\ last.verb = "interject" /\ last.kind = "interject_status"
    /\ last.body = 10000

\* C24: `interject <arg>` with an argument that is no integer, or an integer
\* below 0 or above 10000, is answered with a validation message and leaves
\* the stored odds of the room as they were; 0 and 10000 are accepted.
C24_InterjectValidates ==
    [][\A t \in Rows(tasks) :
           (Completes(t) /\ Head(t.msg) = "interject" /\ Len(t.msg) > 1) =>
               LET parsed == int(t.msg[2])
               IN  IF parsed.raised # "" \/ parsed.value < 0 \/ parsed.value > 10000
                   THEN /\ last'.kind \in {"odds_not_integer", "odds_out_of_range"}
                        /\ get_interject(db', t.room) = get_interject(db, t.room)
                   ELSE last'.kind \in {"interject_set", "interject_disabled"}]_vars

\* The personality text the store holds for room_id: "" while the room has no
\* row or no text.
StoredPersonality(d, room_id) ==
    IF \E r \in Rows(d.room) : r.room_id = room_id /\ r.personality # NULL
    THEN (CHOOSE r \in Rows(d.room) : r.room_id = room_id).personality
    ELSE ""

\* C25: `personality <text>` stores the arguments joined with single spaces
\* for that room; `personality` without arguments changes nothing and shows
\* the stored text, or the default prompt while the room has no text stored.
C25_PersonalityReadOverwrite ==
    [][\A t \in Rows(tasks) :
           (Completes(t) /\ Head(t.msg) = "personality") =>
               IF Len(t.msg) = 1
               THEN /\ db' = db
                    /\ last'.kind = "personality_shown"
                    /\ last'.body = IF StoredPersonality(db, t.room) = ""
                                    THEN original_prompt
                                    ELSE StoredPersonality(db, t.room)
               ELSE /\ StoredPersonality(db', t.room) = join(Tail(t.msg))
                    /\ last'.kind = "personality_set"]_vars

\* C26: `threads` flips the flag of its room and leaves the flags of the other
\* rooms; its reply states the flag the store holds after the flip.
C26_ThreadsToggle ==
    [][\A t \in Rows(tasks) :
           (Completes(t) /\ Head(t.msg) = "threads") =>
               /\ get_hide_in_threads(db', t.room) = ~get_hide_in_threads(db, t.room)
               /\ \A r \in Rooms \ {t.room} :
                      get_hide_in_threads(db', r) = get_hide_in_threads(db, r)
               /\ last'.kind = IF get_hide_in_threads(db', t.room)
                               THEN "threads_hiding" ELSE "threads_not_hiding"]_vars

\* `threads` has just switched the flag of one room off again, while the
\* other room hides in threads.
C26_Witness ==
    /\ last.verb = "threads" /\ last.kind = "threads_not_hiding"
    /\ ~get_hide_in_threads(db, "r1")
    /\ get_hide_in_threads(db, "r2")
    /\ tasks = EmptyBag

\* The commands that fall back to the help text: a verb process() has no
\* case for, and add, remove, subscribe, unsubscribe without an argument.
FallsBack(msg) ==
    \/ Head(msg) \notin Verbs \ {"bogus"}
    \/ Head(msg) \in {"add", "remove", "subscribe", "unsubscribe"} /\ Len(msg) = 1

\* C27: a command of a gate-passing sender with an unknown verb, or with add,
\* remove, subscribe or unsubscribe and no argument, is answered with the help
\* text and changes nothing stored; the command without tokens is answered
\* with the help text whoever sends it.
C27_HelpFallback ==
    [][/\ \A t \in Rows(tasks) :
              (Completes(t) /\ FallsBack(t.msg)) =>
                  /\ last'.kind = "help"
                  /\ db' = db /\ config_greeting' = config_greeting
       /\ (last'.verb = "" /\ last' # last) =>
              /\ last'.kind = "help"
              /\ db' = db /\ config_greeting' = config_greeting
       /\ \A sender \in Users :
              CommandStart("r1", sender, <<>>) => last'.kind = "help"]_vars

\* Room admin u1 is in place and a command with an unknown verb has just been
\* answered with the help text.
C27_Witness ==
    /\ last.verb = "bogus" /\ last.kind = "help"
    /\ "u1" \in list_room_admins(db, "r1")

\* The store method `method` has just returned (this step is its call).
Called(method) == last'.verb = method /\ vars' # vars

\* Every table and the greeting but rss_subscription is as before.
OnlySubscriptionsChange ==
    /\ db'.admin = db.admin /\ db'.room = db.room
    /\ db'.room_admin = db.room_admin /\ db'.rss_feed = db.rss_feed
    /\ db'.greeting = db.greeting

\* Every table and the greeting but room_admin is as before.
OnlyRoomAdminsChange ==
    /\ db'.admin = db.admin /\ db'.room = db.room
    /\ db'.rss_feed = db.rss_feed /\ db'.rss_subscription = db.rss_subscription
    /\ db'.greeting = db.greeting

\* C28: remove_rss_feed deletes the (room, url) subscription and nothing
\* else, remove_room_admin the (room, admin) pair and nothing else: room rows,
\* feed rows with their watermarks, admin rows and every other relation stay;
\* when the relation is not stored the store is unchanged.
C28_RemoveOnlyRelation ==
    [][/\ Called("remove_rss_feed") =>
              LET row == [url |-> last'.body, room_id |-> last'.kind]
              IN  /\ OnlySubscriptionsChange
                  /\ db'.rss_subscription = DeleteRows(db.rss_subscription, {row})
                  /\ ~BagIn(row, db.rss_subscription) => db' = db
       /\ Called("remove_room_admin") =>
              LET row == [admin_id |-> last'.body, room_id |-> last'.kind]
              IN  /\ OnlyRoomAdminsChange
                  /\ db'.room_admin = DeleteRows(db.room_admin, {row})
                  /\ ~BagIn(row, db.room_admin) => db' = db]_vars

\* Room r1 has just been unsubscribed from f1, the last subscription of f1:
\* the feed row of f1 and the room row of r1 are stored, r2 is subscribed to
\* f2 and u1 is an admin of r1.
C28_Witness ==
    /\ last.verb = "remove_rss_feed" /\ last.kind = "r1" /\ last.body = "f1"
    /\ HasFeedRow(db, "f1") /\ get_rooms_from_feed(db, "f1") = {}
    /\ HasRoomRow(db, "r1")
    /\ get_rooms_from_feed(db, "f2") = {"r2"}
    /\ list_room_admins(db, "r1") = {"u1"}

\* C29: set_room_admin, set_personality and add_rss_feed leave exactly one
\* row for their room; when the room had a row, its settings (but a
\* personality being set), its admins and its subscriptions are kept, and
\* the rows of the other rooms are those stored before.
C29_RoomUpsert ==
    [][(Called("set_room_admin") \/ Called("set_personality")
            \/ Called("add_rss_feed")) =>
           LET room_id == last'.kind
               rows == {r \in Rows(db'.room) : r.room_id = room_id}
           IN  /\ Cardinality(rows) = 1
               /\ \A r \in rows : CopiesIn(r, db'.room) = 1
               /\ \A r \in Rows(db.room) :
                      r.room_id # room_id => CopiesIn(r, db'.room) = CopiesIn(r, db.room)
               /\ HasRoomRow(db, room_id) =>
                      /\ RoomRow(db', room_id).interject = RoomRow(db, room_id).interject
                      /\ RoomRow(db', room_id).hide_in_threads
                             = RoomRow(db, room_id).hide_in_threads
                      /\ last'.verb # "set_personality" =>
                             RoomRow(db', room_id).personality
                                 = RoomRow(db, room_id).personality
                      /\ list_room_admins(db, room_id) \subseteq list_room_admins(db', room_id)
                      /\ get_feeds_from_room(db, room_id)
                             \subseteq get_feeds_from_room(db', room_id)]_vars

\* u2 has just been made an admin of r1, a room that had a personality, an
\* admin and a subscription stored: all three are still there.
C29_Witness ==
    /\ last.verb = "set_room_admin" /\ last.kind = "r1" /\ last.body = "u2"
    /\ HasRoomRow(db, "r1") /\ StoredPersonality(db, "r1") = "a"
    /\ list_room_admins(db, "r1") = {"u1", "u2"}
    /\ get_feeds_from_room(db, "r1") = {"f1"}

\* C30: the feed list of the store has one element for each url some room is
\* subscribed to and none for a feed row without subscription; the updates a
\* poll cycle fetches hold no entry of a feed without subscription and no
\* entry twice.
C30_FeedListDistinct ==
    [][/\ \A url \in Urls :
              Cardinality({f \in list_rss_feeds(db, tz) : f.url = url})
                  = IF Subscribers(db, url) = {} THEN 0 ELSE 1
       /\ (pc = "sleep" /\ pc' # "sleep") =>
              /\ \A k \in 1 .. Len(updates') :
                     Subscribers(db, updates'[k].feed.url) # {}
              /\ \A j, k \in 1 .. Len(updates') :
                     (updates'[j].feed.url = updates'[k].feed.url
                          /\ updates'[j].entry = updates'[k].entry) => j = k]_vars

\* The feed row of f2 is stored and no room is subscribed to f2; r1 and r2
\* are subscribed to f1, whose entry a poll cycle is sending; nothing of f2
\* was ever sent.
C30_Witness ==
    /\ HasFeedRow(db, "f2") /\ Subscribers(db, "f2") = {}
    /\ Subscribers(db, "f1") = {"r1", "r2"}
    /\ pc = "fanout" /\ Len(updates) = 1
    /\ \A x \in log : x[1] = "f1"

\* C31: get_personality of a room without a room row returns the empty
\* 'no override' value and raises nothing, so its callers fall back to the
\* default prompt.
C31_PersonalityWithoutRow ==
    \A room_id \in Rooms :
        ~HasRoomRow(db, room_id) =>
            get_personality(db, room_id) = [raised |-> "", value |-> ""]

\* C32: for a command suspended in its membership lookup whose verb is
\* neither add nor remove, the reply and the store it leaves are the same for
\* every outcome of the lookup: any member set, or a failure.
C32_LookupOnlyForAddRemove ==
    \A t \in Rows(tasks) :
        Head(t.msg) \notin {"add", "remove"} =>
            \A raw_members \in JoinedMembers :
                process_resume(db, config_greeting, t, raw_members, web, clock)
                    = process_resume(db, config_greeting, t,
                                     [error |-> FALSE, members |-> {}], web, clock)

\* A handler of the bot's invite ends in this step.
HandlerEnds == \E t \in Rows(invites) : invites' = invites (-) Row(t)

\* C33: a handler of the bot's invite awaits a join call only while fewer than
\* 3 calls have returned and none of them has succeeded; and handlers end:
\* there are always, later, no handlers in flight or a handler that ends.
C33_JoinAtMostThrice ==
    /\ [](\A t \in Rows(invites) :
              t.attempt < 3 /\ t.result # "JoinResponse")
    /\ ([]<>(invites = EmptyBag) \/ []<><<HandlerEnds>>_vars)

\* A handler has ended after its third join call failed, while another one
\* awaits its third join call.
C33_Witness ==
    /\ last.verb = "invite" /\ last.kind = "JoinError"
    /\ \E t \in Rows(invites) : t.attempt = 2

\* C34: when the handler of the bot's invite to a room ends, the inviter is an
\* admin of the room, and so is the creator of the room when it is known and
\* is not the inviter; an invite event with another state key starts no
\* handler and writes nothing.
C34_InviteAdmins ==
    [][/\ \A t \in Rows(invites) :
              invites' = invites (-) Row(t) =>
                  /\ t.sender \in list_room_admins(db', t.room)
                  /\ (t.creator # "" /\ t.creator # t.sender) =>
                         t.creator \in list_room_admins(db', t.room)
       /\ \A sender \in Targets, creator \in Creators :
              invite_event_filtered_callback(invites, "r1", sender, creator, "u1")
                  = invites
       /\ invites' = invites => db' = db]_vars

\* The invite of u2 to a room created by u1 has been handled although no join
\* succeeded: both are admins.
C34_Witness ==
    /\ last = [verb |-> "invite", kind |-> "JoinError", body |-> "u2"]
    /\ list_room_admins(db, "r1") = {"u1", "u2"}
    /\ invites = EmptyBag

\* C35: in a room that has an admin, a user who is neither an admin of the
\* room nor a super-admin becomes an admin only in the step that completes
\* an `add` of that user, a command that passed the gate: no invite of the
\* bot and no other event makes them one.
C35_NoEscalation ==
    [][\A u \in Targets :
           (list_room_admins(db, "r1") # {}
                /\ u \notin list_room_admins(db, "r1")
                /\ u \in list_room_admins(db', "r1")) =>
               \E t \in Rows(tasks) :
                   tasks' = tasks (-) Row(t) /\ t.msg = <<"add", u>>]_vars

\* C36: a command that completes after its membership lookup changes the
\* store only if its sender is an admin of the room or a super-admin in the
\* state it completes in.
C36_NoStaleAuthorization ==
    [][\A t \in Rows(tasks) :
           (tasks' = tasks (-) Row(t) /\ db' # db) =>
               check_if_admin(db, t.room, t.sender)]_vars

\* C37: the scheduler calls send_text_to_room for a room only while the room
\* is subscribed to the feed of the update: when a step of the scheduler
\* leaves it suspended in the send to the one room left of its inner loop,
\* that room is subscribed to the feed.
C37_NoSendAfterUnsubscribe ==
    [][(feedVars' # feedVars /\ pc' = "fanout" /\ Cardinality(fan') = 1) =>
           fan' \subseteq Subscribers(db', updates'[ui'].feed.url)]_vars

\* C38: an entry that is in the document of f1 while room r2 is not yet
\* subscribed to f1 was published before r2 subscribed: it is never sent to
\* r2.
C38_NoEntryFromBeforeSubscription ==
    \A i \in 1 .. MaxEntries :
        []((i <= Len(web["f1"].entries) /\ "r2" \notin Subscribers(db, "f1"))
               => [](<<"f1", i, "r2">> \notin log))

\* What the store holds for one room: its admins, its subscriptions and its
\* row (personality, interject odds, thread flag).
RoomState(d, room_id) ==
    [admins |-> list_room_admins(d, room_id),
     feeds  |-> get_feeds_from_room(d, room_id),
     rows   |-> {r \in Rows(d.room) : r.room_id = room_id}]

====
